---- MODULE Spec2Model ----
(***************************************************************************)
(* Model of the property-based test execution engine:                      *)
(*   ThreadPool, ParallelTestRunner                                        *)
(*       (test/pbt/framework/parallel/parallel_test_runner.{hpp,cpp})      *)
(*   ResourceMonitor                                                       *)
(*       (test/pbt/framework/parallel/resource_monitor.{hpp,cpp})          *)
(*                                                                         *)
(* The specifications share the variables; the variables of the components *)
(* a specification does not exercise stay at their initial values.         *)
(*   SpecPool     a ThreadPool used directly by a client thread            *)
(*   SpecRunner   a ParallelTestRunner with its pool, its monitor thread,  *)
(*                the auxiliary thread of every test, one thread calling   *)
(*                run_all() and one calling stop()                         *)
(*   SpecRunAll   the same runner with two threads calling run_all()       *)
(*   SpecMon      a ResourceMonitor driven by one controlling thread       *)
(***************************************************************************)
EXTENDS Integers, Sequences, FiniteSets, TLC

\* ------------------------------------------------------------------ bounds
NumThreads == 2        \* workers of the pool (ThreadPool::ThreadPool argument)
MaxPoolTasks == 3      \* enqueue() calls made by the client of SpecPool
MaxShutdowns == 2      \* shutdown() / stop() calls (explicit call, destructor)
MaxTests == 2          \* add_property() calls on the runner
MaxSamples == 3        \* samples the ResourceMonitor takes
MaxHistory == 2        \* largest configured history_size
MaxPoolSize == 6         \* largest size the registered pool reports
MaxRunners == 3          \* runners handed to a TestDistributor
MaxDistTasks == 4        \* add_property() calls on the distributor
MaxDistRuns == 2         \* run_all() calls on the distributor
MaxRuns == 2             \* runs of equal bytes in a byte string
MaxDbOps == 3            \* calls made on a CounterexampleDatabase
MaxLives == 2            \* CounterexampleDatabase objects made on one path
MaxTime == 1             \* ticks of the system clock
MaxCalls == 5          \* start() and stop() calls on the ResourceMonitor

Workers == 1..NumThreads
PoolTasks == 1..MaxPoolTasks
Tests == 1..MaxTests
Callers == {"c1", "c2"}          \* threads that can call run_all()
Names == {"p", "q"}              \* test names given to add_property
Outcomes == {"pass", "pbt_cex", "std", "unknown"}   \* what a check does
Levels == {50, 95}               \* usage readings, in percent
Samplers == 1..MaxCalls          \* ids of the threads start() can create
Controllers == {"t1", "t2"}      \* threads that can call start() and stop()

VARIABLES
    \* ThreadPool
    stop_,              \* std::atomic<bool> stop_
    tasks_,             \* std::queue<packaged_task> tasks_ (task ids)
    active_workers_,    \* std::atomic<size_t> active_workers_
    worker_pc,          \* position of every worker_thread()
    worker_task,        \* the packaged_task a worker holds (0: none)
    joined,             \* workers whose std::thread is no longer joinable
    sd_pc,              \* position of the thread inside shutdown()
    sd_done,            \* shutdown() calls that have returned
    late_dequeues,      \* tasks dequeued after stop_ was set
    \* client of SpecPool
    next_ptask,         \* id of the next task the client enqueues
    enq_result,         \* outcome of every enqueue() call of the client
    \* ParallelTestRunner
    adaptive_scheduling,     \* config_.adaptive_scheduling
    max_concurrent_tests,    \* config_.max_concurrent_tests
    pending_tasks_,          \* std::queue<TestTask> pending_tasks_
    next_test,               \* id of the next TestTask
    task_name,               \* TestTask::name
    stop_requested_,         \* std::atomic<bool> stop_requested_
    st_pc,                   \* position of the thread inside stop()
    current_cpu_usage_,      \* std::atomic<double>, percent
    current_memory_usage_,   \* std::atomic<double>, percent
    rmon_pc,                 \* position of monitor_resources()
    frame,                   \* local `result` of run_test_with_timeout, per worker
    aux_pc,                  \* position of every test_thread
    aux_frame,               \* the worker whose frame a test_thread refers to
    detached,                \* tasks whose test_thread was detached
    thrown,                  \* what the check of a task threw ("none": nothing)
    future,                  \* shared state of the future of every task
    started,                 \* times the check of a TestTask was started
    late_write,              \* tasks whose test_thread wrote `result` after
                             \* the timeout branch
    ra_pc,                   \* position of every run_all() caller
    ra_task,                 \* local `task` of run_all()
    ra_futures,              \* local `futures` of run_all()
    ra_results,              \* local `all_results` of run_all()
    ra_entry,                \* add_property() calls made before run_all() was entered
    popped,                  \* times a TestTask left pending_tasks_
    collected,               \* times run_all() took the outcome of a task's future
    \* ResourceMonitor
    history_size,            \* config_.history_size
    running_,                \* std::atomic<bool> running_
    monitor_thread_,         \* the thread monitor_thread_ refers to (0: none)
    mon_pc,                  \* position of every monitor_loop() thread
    next_thread,             \* id of the next thread start() creates
    history_,                \* std::vector<ResourceMetrics> history_
    current_metrics_,        \* ResourceMetrics current_metrics_
    clock,                   \* samples taken so far, the timestamp source
    alert_callback_,         \* whether an AlertCallback is installed
    last_cpu_alert_level_,   \* std::atomic<double>, percent
    last_memory_alert_level_,\* std::atomic<double>, percent
    alerts,                  \* the callback invocations: <<kind, timestamp>>
    ctl_pc,                  \* position of every thread that calls start()/stop()
    ncalls,                  \* start() and stop() calls made so far
    last_call,               \* what the last start() or stop() call did
    proc,                    \* "alive", or how the process ended
    alert_thresholds,        \* config_.cpu_alert_threshold and
                             \* config_.memory_alert_threshold, percent
    \* AdaptiveResourceManager with one registered pool
    arm_config,              \* Config targets and factor (percent), and the
                             \* pool's min_threads and max_threads
    pool_current_size,       \* what the pool's get_current_size() reports
    arm_last,                \* the last adjustment: readings, current size,
                             \* optimal size, and whether set_size was called
    \* TestDistributor
    td_state,                \* "none", "constructed", "threw" (constructor),
                             \* or "crashed" (killed in add_property)
    td_size,                 \* runners_.size()
    strategy_,               \* DistributionStrategy{type, custom_selector}:
                             \* custom_selector is whether one is supplied
    round_robin_counter_,    \* std::atomic<size_t> round_robin_counter_
    td_pending,              \* pending_tasks_ of every runner (task ids)
    td_adders,               \* add_property() callers: <<runner_index, task>>
                             \* between select_runner() and the runner's
                             \* add_property(), <<-1, 0>> otherwise
    td_next,                 \* id of the next task added
    td_assigned,             \* the runner index every task was placed on
    td_pc,                   \* position of the caller of run_all()
    td_runner_pc,            \* position of every runner's run_all()
    td_runner_results,       \* what every runner's run_all() returns
    td_all_results,          \* local `all_results` of run_all()
    td_runs,                 \* run_all() calls started
    td_entry,                \* the tasks that were pending when run_all() was called
    td_overlap,              \* an add_property() overlapped another one or a
                             \* runner that was draining its queue
    \* a CompressionStrategy in use
    codec,                   \* the strategy, the string handed to compress(),
                             \* the vector it returned and what decompress()
                             \* made of it
    \* CounterexampleDatabase
    db_state,                \* "none" before the constructor, then "open"
    db_config,               \* config_
    db_strategies,           \* the names registered in compression_strategies_
    db_entries,              \* impl_->entries
    db_file,                 \* the file at config_.database_path
    db_export,               \* the file at the path given to export_to_file
    db_now,                  \* std::chrono::system_clock::now()
    db_ops,                  \* calls made on the database
    db_last,                 \* the last call and what it returned
    db_ghost                 \* the test name of every store() so far, the
                             \* entries the last store() had before it
                             \* enforced the total size, how many entries
                             \* its cleanup_old_entries() removed,
                             \* whether store() alone has changed the
                             \* entries, and whether the retention period or
                             \* the total size limit has removed one
    ,
    \* the mutexes and the calls in progress
    mutex_,                  \* CounterexampleDatabase::mutex_: the thread that
                             \* holds it, or "none"
    metrics_mutex_,          \* ResourceMonitor::metrics_mutex_, likewise
    in_call                  \* for every thread the call it is inside and
                             \* how far the call has got

poolVars == <<stop_, tasks_, active_workers_, worker_pc, worker_task, joined,
              sd_pc, sd_done, late_dequeues>>
clientVars == <<next_ptask, enq_result>>
configVars == <<adaptive_scheduling, max_concurrent_tests>>
taskVars == <<pending_tasks_, next_test, task_name>>
stopVars == <<stop_requested_, st_pc>>
usageVars == <<current_cpu_usage_, current_memory_usage_, rmon_pc>>
testVars == <<frame, aux_pc, aux_frame, detached, thrown, future, started,
              late_write>>
callVars == <<ra_pc, ra_task, ra_futures, ra_results, ra_entry, popped,
              collected>>
runnerVars == <<configVars, taskVars, stopVars, usageVars, testVars, callVars>>
monVars == <<history_size, running_, monitor_thread_, mon_pc, next_thread,
             history_, current_metrics_, clock, alert_callback_,
             last_cpu_alert_level_, last_memory_alert_level_, alerts,
             ctl_pc, ncalls, last_call, proc>>
monCfgVars == <<alert_thresholds>>
armVars == <<arm_config, pool_current_size, arm_last>>
distVars == <<td_state, td_size, strategy_, round_robin_counter_, td_pending,
              td_adders, td_next, td_assigned, td_pc, td_runner_pc,
              td_runner_results, td_all_results, td_runs, td_entry,
              td_overlap>>
dbVars == <<db_state, db_config, db_strategies, db_entries, db_file,
            db_export, db_now,
            db_ops, db_last, db_ghost>>
lockVars == <<mutex_, metrics_mutex_, in_call>>
others == <<distVars, codec, dbVars>>
vars == <<poolVars, clientVars, runnerVars, monVars, monCfgVars, armVars,
          others, lockVars>>

\* what the steps of one component leave alone
outsidePool == <<runnerVars, monVars, monCfgVars, armVars, others, lockVars>>
outsideRunner == <<clientVars, monVars, monCfgVars, armVars, others,
                  lockVars>>
besideMon == <<poolVars, clientVars, runnerVars, monCfgVars, armVars,
              others>>
outsideMon == <<besideMon, lockVars>>

\* the threads that call into a CounterexampleDatabase or a
\* ResourceMonitor: the callers, and the monitor's sampler thread
Sampler == "sampler"
Threads == Controllers \cup {Sampler}
NoOp == [op |-> "none", phase |-> "none"]

\* no mutex is held and no call is in progress
LocksInit ==
    /\ mutex_ = "none"
    /\ metrics_mutex_ = "none"
    /\ in_call = [t \in Threads |-> NoOp]

\* =================================================================
\* ThreadPool
\* =================================================================

PoolInit ==
    /\ stop_ = FALSE
    /\ tasks_ = <<>>
    /\ active_workers_ = 0
    /\ worker_pc = [w \in Workers |-> "wait"]
    /\ worker_task = [w \in Workers |-> 0]
    /\ joined = {}
    /\ sd_pc = "idle"
    /\ sd_done = 0
    /\ late_dequeues = 0

\* enqueue(): `if (stop_) throw PBTException(RUNTIME_ERROR, ...)`
EnqueueRejectedNever == FALSE
EnqueueRejected == stop_

\* enqueue(): `tasks_.push(std::move(packaged_task))`
Enqueue(t) ==
    /\ ~EnqueueRejected
    /\ tasks_' = Append(tasks_, t)

\* worker_thread(): `if (stop_ && tasks_.empty()) return;` after the wait for
\* `stop_ || !tasks_.empty()`
WorkerMayExitOnStop == stop_
WorkerMayExit == stop_ /\ tasks_ = <<>>

\* worker_thread(): which task leaves the queue, `tasks_.front()`
DequeuedTaskLast(q) == q[Len(q)]
DequeuedTask(q) == Head(q)

QueueWithout(q, t) ==
    IF t = Head(q) THEN Tail(q) ELSE SubSeq(q, 1, Len(q) - 1)

\* worker_thread(): pop a task under the lock and count the worker as active
WorkerDequeue(w) ==
    /\ worker_pc[w] = "wait"
    /\ tasks_ # <<>>
    /\ ~WorkerMayExit
    /\ worker_task' = [worker_task EXCEPT ![w] = DequeuedTask(tasks_)]
    /\ tasks_' = QueueWithout(tasks_, DequeuedTask(tasks_))
    /\ active_workers_' = active_workers_ + 1
    /\ worker_pc' = [worker_pc EXCEPT ![w] = "run"]
    /\ late_dequeues' = IF stop_ THEN late_dequeues + 1 ELSE late_dequeues
    /\ UNCHANGED <<stop_, joined, sd_pc, sd_done>>

\* worker_thread(): leave the loop
WorkerExit(w) ==
    /\ worker_pc[w] = "wait"
    /\ WorkerMayExit
    /\ worker_pc' = [worker_pc EXCEPT ![w] = "exited"]
    /\ UNCHANGED <<stop_, tasks_, active_workers_, worker_task, joined,
                   sd_pc, sd_done, late_dequeues>>

\* worker_thread(): `active_workers_--` after task() returned or threw
ActiveAfterTaskKept(n) == n
ActiveAfterTask(n) == n - 1

\* worker_thread(): task() is over (what it throws is swallowed), the worker
\* goes back to the wait
WorkerFinish(w) ==
    /\ worker_task[w] # 0
    /\ active_workers_' = ActiveAfterTask(active_workers_)
    /\ worker_task' = [worker_task EXCEPT ![w] = 0]
    /\ worker_pc' = [worker_pc EXCEPT ![w] = "wait"]
    /\ UNCHANGED <<stop_, tasks_, joined, sd_pc, sd_done, late_dequeues>>

\* shutdown(): `stop_ = true` under the lock, then notify_all()
StopFlagAfterShutdownToggled == ~stop_
StopFlagAfterShutdown == TRUE

ShutdownBegin ==
    /\ sd_pc = "idle"
    /\ stop_' = StopFlagAfterShutdown
    /\ sd_pc' = "joining"
    /\ UNCHANGED <<tasks_, active_workers_, worker_pc, worker_task, joined,
                   sd_done, late_dequeues>>

\* shutdown(): `for (auto& worker : workers_) if (worker.joinable())`, the
\* workers the loop calls join() on
JoinTargetsUnchecked == Workers
JoinTargets == {w \in Workers : w \notin joined}

\* shutdown(): the join loop.  join() blocks until the worker has left
\* worker_thread(); join() on a thread that is not joinable throws
\* std::system_error, which leaves shutdown()
ShutdownJoin ==
    /\ sd_pc = "joining"
    /\ IF JoinTargets \cap joined # {}
         THEN /\ sd_pc' = "threw"
              /\ UNCHANGED <<joined, sd_done>>
         ELSE /\ \A w \in JoinTargets : worker_pc[w] = "exited"
              /\ joined' = joined \cup JoinTargets
              /\ sd_pc' = "idle"
              /\ sd_done' = sd_done + 1
    /\ UNCHANGED <<stop_, tasks_, active_workers_, worker_pc, worker_task,
                   late_dequeues>>

\* ----------------------------------------------------------------- client
ClientInit ==
    /\ next_ptask = 1
    /\ enq_result = [t \in PoolTasks |-> "none"]

\* a client thread calls ThreadPool::enqueue
ClientEnqueue ==
    /\ next_ptask <= MaxPoolTasks
    /\ next_ptask' = next_ptask + 1
    /\ IF EnqueueRejected
         THEN /\ enq_result' = [enq_result EXCEPT ![next_ptask] = "runtime_error"]
              /\ UNCHANGED tasks_
         ELSE /\ Enqueue(next_ptask)
              /\ enq_result' = [enq_result EXCEPT ![next_ptask] = "ok"]
    /\ UNCHANGED <<stop_, active_workers_, worker_pc, worker_task, joined,
                   sd_pc, sd_done, late_dequeues>>
    /\ UNCHANGED outsidePool

\* a client thread calls ThreadPool::shutdown (explicitly, then ~ThreadPool)
ClientShutdown ==
    /\ sd_done < MaxShutdowns
    /\ ShutdownBegin
    /\ UNCHANGED <<clientVars, outsidePool>>

\* shutdown() called by the client returns
ClientShutdownReturn ==
    /\ ShutdownJoin
    /\ UNCHANGED <<clientVars, outsidePool>>

\* the workers of a pool that runs the client's tasks
PoolWorkerDequeue ==
    /\ \E w \in Workers : WorkerDequeue(w)
    /\ UNCHANGED <<clientVars, outsidePool>>

PoolWorkerFinish ==
    /\ \E w \in Workers : worker_pc[w] = "run" /\ WorkerFinish(w)
    /\ UNCHANGED <<clientVars, outsidePool>>

PoolWorkerExit ==
    /\ \E w \in Workers : WorkerExit(w)
    /\ UNCHANGED <<clientVars, outsidePool>>


\* =================================================================
\* ParallelTestRunner
\* =================================================================

TimeoutMessage == "Test timeout exceeded"

\* TestResult{test_name, success, duration, error_message, counterexample};
\* the duration is not modelled, an empty counterexample is "no value"
Result(n, s, e, c) ==
    [test_name |-> n, success |-> s, error_message |-> e, counterexample |-> c]
NoFrame == Result("", TRUE, "", "")

\* e.what() of what the check throws
ErrorMessageOf(o) ==
    CASE o = "pbt_cex" -> "property violated"
      [] o = "std" -> "std::exception"
      [] OTHER -> "Unknown error"

RunnerInit ==
    /\ adaptive_scheduling \in BOOLEAN
    /\ max_concurrent_tests \in 0..1
    /\ pending_tasks_ = <<>>
    /\ next_test = 1
    /\ task_name = [t \in Tests |-> ""]
    /\ stop_requested_ = FALSE
    /\ st_pc = "idle"
    /\ current_cpu_usage_ = 0
    /\ current_memory_usage_ = 0
    /\ rmon_pc = IF adaptive_scheduling THEN "loop" ELSE "none"
    /\ frame = [w \in Workers |-> NoFrame]
    /\ aux_pc = [t \in Tests |-> "none"]
    /\ aux_frame = [t \in Tests |-> 0]
    /\ detached = {}
    /\ thrown = [t \in Tests |-> "none"]
    /\ future = [t \in Tests |-> <<>>]
    /\ started = [t \in Tests |-> 0]
    /\ late_write = {}
    /\ ra_pc = [c \in Callers |-> "idle"]
    /\ ra_task = [c \in Callers |-> 0]
    /\ ra_futures = [c \in Callers |-> <<>>]
    /\ ra_results = [c \in Callers |-> <<>>]
    /\ ra_entry = [c \in Callers |-> 0]
    /\ popped = [t \in Tests |-> 0]
    /\ collected = [t \in Tests |-> 0]

\* add_property(name, property, test_config): build the TestTask and push it
\* on pending_tasks_ under tasks_mutex_
AddProperty(n) ==
    /\ next_test <= MaxTests
    /\ task_name' = [task_name EXCEPT ![next_test] = n]
    /\ pending_tasks_' = Append(pending_tasks_, next_test)
    /\ next_test' = next_test + 1
    /\ UNCHANGED <<configVars, stopVars, usageVars, testVars, callVars>>
    /\ UNCHANGED <<poolVars, outsideRunner>>

\* a thread enters run_all()
RunAllBegin(c) ==
    /\ ra_pc[c] = "idle"
    /\ ra_pc' = [ra_pc EXCEPT ![c] = "pop"]
    /\ ra_entry' = [ra_entry EXCEPT ![c] = next_test - 1]
    /\ UNCHANGED <<ra_task, ra_futures, ra_results, popped, collected>>
    /\ UNCHANGED <<configVars, taskVars, stopVars, usageVars, testVars>>
    /\ UNCHANGED <<poolVars, outsideRunner>>

\* run_all(): `task = std::move(pending_tasks_.front()); pending_tasks_.pop();`
PendingAfterPopKept(q) == q
PendingAfterPop(q) == Tail(q)

\* run_all(): the head of the submit loop, under tasks_mutex_
RunAllPop(c) ==
    /\ ra_pc[c] = "pop"
    /\ IF pending_tasks_ = <<>>
         THEN /\ ra_pc' = [ra_pc EXCEPT ![c] = "collect"]
              /\ UNCHANGED <<pending_tasks_, ra_task, popped>>
         ELSE /\ ra_task' = [ra_task EXCEPT ![c] = Head(pending_tasks_)]
              /\ popped' = [popped EXCEPT ![Head(pending_tasks_)] = @ + 1]
              /\ pending_tasks_' = PendingAfterPop(pending_tasks_)
              /\ ra_pc' = [ra_pc EXCEPT ![c] =
                             IF adaptive_scheduling THEN "admit_conc" ELSE "submit"]
    /\ UNCHANGED <<ra_futures, ra_results, ra_entry, collected, next_test,
                   task_name>>
    /\ UNCHANGED <<configVars, stopVars, usageVars, testVars>>
    /\ UNCHANGED <<poolVars, outsideRunner>>

\* run_all(): `while (active_workers() >= max_concurrent_tests &&
\*                    max_concurrent_tests > 0) sleep(10ms)`; the loop is left
\* when the condition is read as false
RunAllAdmitConcurrency(c) ==
    /\ ra_pc[c] = "admit_conc"
    /\ ~(active_workers_ >= max_concurrent_tests /\ max_concurrent_tests > 0)
    /\ ra_pc' = [ra_pc EXCEPT ![c] = "admit_res"]
    /\ UNCHANGED <<ra_task, ra_futures, ra_results, ra_entry, popped,
                   collected>>
    /\ UNCHANGED <<configVars, taskVars, stopVars, usageVars, testVars>>
    /\ UNCHANGED <<poolVars, outsideRunner>>

cpu_threshold == 80        \* Config::cpu_threshold = 0.8
memory_threshold == 80     \* Config::memory_threshold = 0.8

\* run_all(): `while (current_cpu_usage_ > cpu_threshold ||
\*                    current_memory_usage_ > memory_threshold) sleep(100ms)`
ResourcesConstrainedCpuOnly(cpu, mem) == cpu > cpu_threshold
ResourcesConstrained(cpu, mem) ==
    cpu > cpu_threshold \/ mem > memory_threshold

RunAllAdmitResources(c) ==
    /\ ra_pc[c] = "admit_res"
    /\ ~ResourcesConstrained(current_cpu_usage_, current_memory_usage_)
    /\ ra_pc' = [ra_pc EXCEPT ![c] = "submit"]
    /\ UNCHANGED <<ra_task, ra_futures, ra_results, ra_entry, popped,
                   collected>>
    /\ UNCHANGED <<configVars, taskVars, stopVars, usageVars, testVars>>
    /\ UNCHANGED <<poolVars, outsideRunner>>

\* run_all(): `futures.push_back(std::move(future));`
FuturesAfterSubmitLatest(fs, t) == <<t>>
FuturesAfterSubmit(fs, t) == Append(fs, t)

\* run_all(): `thread_pool_->enqueue(...)`, `futures.push_back(future)`;
\* the exception of enqueue() is not caught in run_all() and leaves it
RunAllSubmit(c) ==
    /\ ra_pc[c] = "submit"
    /\ IF EnqueueRejected
         THEN /\ ra_pc' = [ra_pc EXCEPT ![c] = "threw"]
              /\ ra_futures' = [ra_futures EXCEPT ![c] = <<>>]
              /\ UNCHANGED tasks_
         ELSE /\ Enqueue(ra_task[c])
              /\ ra_futures' = [ra_futures EXCEPT
                                  ![c] = FuturesAfterSubmit(@, ra_task[c])]
              /\ ra_pc' = [ra_pc EXCEPT ![c] = "pop"]
    /\ ra_task' = [ra_task EXCEPT ![c] = 0]
    /\ UNCHANGED <<ra_results, ra_entry, popped, collected>>
    /\ UNCHANGED <<configVars, taskVars, stopVars, usageVars, testVars>>
    /\ UNCHANGED <<stop_, active_workers_, worker_pc, worker_task, joined,
                   sd_pc, sd_done, late_dequeues>>
    /\ UNCHANGED outsideRunner

\* the shared state of a future holds a TestResult or an exception
IsValue(f) == "success" \in DOMAIN f
Exception(o) == [exception |-> o]
IsStdException(o) == o \in {"pbt_cex", "std"}

\* run_all(): the TestResult pushed by `catch (const std::exception& e)`
UnexpectedErrorResult == Result("Unknown", FALSE, "Unexpected error", "")

\* run_all(): `all_results.push_back(future.get())` for the next future;
\* get() blocks until the packaged_task has stored its outcome and rethrows
\* a stored exception: a std::exception becomes the "Unknown" result,
\* anything else leaves run_all()
RunAllCollect(c) ==
    /\ ra_pc[c] = "collect"
    /\ ra_futures[c] # <<>>
    /\ future[Head(ra_futures[c])] # <<>>
    /\ LET f == future[Head(ra_futures[c])][1] IN
         IF IsValue(f)
           THEN /\ ra_results' = [ra_results EXCEPT ![c] = Append(@, f)]
                /\ ra_futures' = [ra_futures EXCEPT ![c] = Tail(@)]
                /\ UNCHANGED ra_pc
           ELSE IF IsStdException(f.exception)
             THEN /\ ra_results' = [ra_results EXCEPT
                                      ![c] = Append(@, UnexpectedErrorResult)]
                  /\ ra_futures' = [ra_futures EXCEPT ![c] = Tail(@)]
                  /\ UNCHANGED ra_pc
             ELSE /\ ra_pc' = [ra_pc EXCEPT ![c] = "threw"]
                  /\ ra_futures' = [ra_futures EXCEPT ![c] = <<>>]
                  /\ ra_results' = [ra_results EXCEPT ![c] = <<>>]
    /\ collected' = [collected EXCEPT ![Head(ra_futures[c])] = @ + 1]
    /\ UNCHANGED <<ra_task, ra_entry, popped>>
    /\ UNCHANGED <<configVars, taskVars, stopVars, usageVars, testVars>>
    /\ UNCHANGED <<poolVars, outsideRunner>>

\* run_all(): `return all_results;`
RunAllReturn(c) ==
    /\ ra_pc[c] = "collect"
    /\ ra_futures[c] = <<>>
    /\ ra_pc' = [ra_pc EXCEPT ![c] = "done"]
    /\ UNCHANGED <<ra_task, ra_futures, ra_results, ra_entry, popped,
                   collected>>
    /\ UNCHANGED <<configVars, taskVars, stopVars, usageVars, testVars>>
    /\ UNCHANGED <<poolVars, outsideRunner>>

\* ------------------------------------------------- run_test_with_timeout
\* the worker is inside run_test_with_timeout: its `result` is a live object
InCall(w) == worker_pc[w] \in {"run", "timedout"}

\* A worker of the runner's pool takes a task and enters
\* run_test_with_timeout(): initialise `result`, create the promise and
\* start test_thread, which captures task, result and promise by reference
RunTestStart(w) ==
    /\ WorkerDequeue(w)
    /\ LET t == DequeuedTask(tasks_) IN
         /\ frame' = [frame EXCEPT ![w] = Result(task_name[t], TRUE, "", "")]
         /\ aux_pc' = [aux_pc EXCEPT ![t] = "running"]
         /\ aux_frame' = [aux_frame EXCEPT ![t] = w]
         /\ started' = [started EXCEPT ![t] = @ + 1]
    /\ UNCHANGED <<detached, thrown, future, late_write>>
    /\ UNCHANGED <<configVars, taskVars, stopVars, usageVars, callVars>>
    /\ UNCHANGED outsideRunner

\* test_thread, the catch handlers: `result.success = false;
\* result.error_message = e.what(); if (e.has_counterexample())
\* result.counterexample = e.get_counterexample();`
SuccessAfterFailureKept(r) == r.success
SuccessAfterFailure(r) == FALSE

CaughtInto(r, o) ==
    [r EXCEPT !.success = SuccessAfterFailure(r),
              !.error_message = ErrorMessageOf(o),
              !.counterexample = IF o = "pbt_cex" THEN "cex" ELSE @]

\* test_thread: the check returns and `test_promise.set_value()` runs
AuxPass(t) ==
    /\ aux_pc[t] = "running"
    /\ aux_pc' = [aux_pc EXCEPT ![t] = "ready"]
    /\ UNCHANGED <<frame, aux_frame, detached, thrown, future, started,
                   late_write>>
    /\ UNCHANGED <<configVars, taskVars, stopVars, usageVars, callVars>>
    /\ UNCHANGED <<poolVars, outsideRunner>>

\* test_thread: the check throws and a catch handler writes through the
\* captured reference to `result`.  While the call that created the thread is
\* still waiting, the write goes to its result.  After the timeout branch the
\* write races with that branch; after the call has returned the reference
\* dangles: the write is lost, or it lands in the `result` of the call the
\* same worker is making now (same stack slot).
AuxFail(t, o) ==
    /\ aux_pc[t] = "running"
    /\ o # "pass"
    /\ LET w == aux_frame[t] IN
         \/ /\ worker_task[w] = t
            /\ InCall(w)
            /\ frame' = [frame EXCEPT ![w] = CaughtInto(@, o)]
            /\ late_write' = IF worker_pc[w] = "timedout"
                               THEN late_write \cup {t} ELSE late_write
         \/ /\ worker_task[w] # t
            /\ late_write' = late_write \cup {t}
            /\ \/ UNCHANGED frame
               \/ /\ InCall(w)
                  /\ frame' = [frame EXCEPT ![w] = CaughtInto(@, o)]
    /\ aux_pc' = [aux_pc EXCEPT ![t] = "caught"]
    /\ thrown' = [thrown EXCEPT ![t] = o]
    /\ UNCHANGED <<aux_frame, detached, future, started>>
    /\ UNCHANGED <<configVars, taskVars, stopVars, usageVars, callVars>>
    /\ UNCHANGED <<poolVars, outsideRunner>>

\* test_thread: `test_promise.set_exception(std::current_exception())`
AuxSetException(t) ==
    /\ aux_pc[t] = "caught"
    /\ aux_pc' = [aux_pc EXCEPT ![t] = "ready"]
    /\ UNCHANGED <<frame, aux_frame, detached, thrown, future, started,
                   late_write>>
    /\ UNCHANGED <<configVars, taskVars, stopVars, usageVars, callVars>>
    /\ UNCHANGED <<poolVars, outsideRunner>>

\* run_test_with_timeout(): `try { test_future.get(); } catch (...) {}`
GetRethrowSwallowedNever == FALSE
GetRethrowSwallowed == TRUE

\* run_test_with_timeout(): wait_for() sees the promise fulfilled in time:
\* join test_thread, get() the future, `return result;` (an exception that
\* escapes is stored in the task's future by the packaged_task), and the
\* worker is done with the task
RunTestReady(w) ==
    /\ worker_pc[w] = "run"
    /\ LET t == worker_task[w] IN
         /\ aux_pc[t] = "ready"
         /\ t \notin detached
         /\ aux_pc' = [aux_pc EXCEPT ![t] = "joined"]
         /\ future' = [future EXCEPT ![t] =
                         IF thrown[t] # "none" /\ ~GetRethrowSwallowed
                           THEN <<Exception(thrown[t])>>
                           ELSE <<frame[w]>>]
    /\ frame' = [frame EXCEPT ![w] = NoFrame]
    /\ WorkerFinish(w)
    /\ UNCHANGED <<aux_frame, detached, thrown, started, late_write>>
    /\ UNCHANGED <<configVars, taskVars, stopVars, usageVars, callVars>>
    /\ UNCHANGED outsideRunner

\* run_test_with_timeout(), the timeout branch: `result.success = false;
\* result.error_message = "Test timeout exceeded";`
TimedOutResultUnmarked(r) == r
TimedOutResult(r) ==
    [r EXCEPT !.success = FALSE, !.error_message = TimeoutMessage]

\* run_test_with_timeout(): wait_for() returns timeout, the promise is not
\* fulfilled yet; the branch writes `result` and detaches test_thread
WaitTimesOutNever(t) == FALSE
WaitTimesOut(t) == aux_pc[t] \in {"running", "caught"}

RunTestTimeout(w) ==
    /\ worker_pc[w] = "run"
    /\ WaitTimesOut(worker_task[w])
    /\ frame' = [frame EXCEPT ![w] = TimedOutResult(@)]
    /\ detached' = detached \cup {worker_task[w]}
    /\ worker_pc' = [worker_pc EXCEPT ![w] = "timedout"]
    /\ UNCHANGED <<aux_pc, aux_frame, thrown, future, started, late_write>>
    /\ UNCHANGED <<configVars, taskVars, stopVars, usageVars, callVars>>
    /\ UNCHANGED <<stop_, tasks_, active_workers_, worker_task, joined,
                   sd_pc, sd_done, late_dequeues>>
    /\ UNCHANGED outsideRunner

\* run_test_with_timeout(): `return result;` after the timeout branch, and
\* the worker is done with the task
RunTestReturn(w) ==
    /\ worker_pc[w] = "timedout"
    /\ future' = [future EXCEPT ![worker_task[w]] = <<frame[w]>>]
    /\ frame' = [frame EXCEPT ![w] = NoFrame]
    /\ WorkerFinish(w)
    /\ UNCHANGED <<aux_pc, aux_frame, detached, thrown, started, late_write>>
    /\ UNCHANGED <<configVars, taskVars, stopVars, usageVars, callVars>>
    /\ UNCHANGED outsideRunner

\* a worker of the runner's pool leaves worker_thread()
RunnerWorkerExit(w) ==
    /\ WorkerExit(w)
    /\ UNCHANGED <<clientVars, outsidePool>>

\* ----------------------------------------------------- monitor_resources
\* monitor_resources(): one turn of `while (!stop_requested_)`: store the
\* two readings, then sleep 500 ms
RunnerMonitorSample(cpu, mem) ==
    /\ rmon_pc = "loop"
    /\ ~stop_requested_
    /\ current_cpu_usage_' = cpu
    /\ current_memory_usage_' = mem
    /\ UNCHANGED rmon_pc
    /\ UNCHANGED <<configVars, taskVars, stopVars, testVars, callVars>>
    /\ UNCHANGED <<poolVars, outsideRunner>>

\* monitor_resources(): the loop reads stop_requested_ as true and returns
RunnerMonitorExit ==
    /\ rmon_pc = "loop"
    /\ stop_requested_
    /\ rmon_pc' = "exited"
    /\ UNCHANGED <<current_cpu_usage_, current_memory_usage_>>
    /\ UNCHANGED <<configVars, taskVars, stopVars, testVars, callVars>>
    /\ UNCHANGED <<poolVars, outsideRunner>>

\* ------------------------------------------------------------------ stop
\* stop(): `stop_requested_ = true;`
RunnerStopBegin ==
    /\ st_pc = "idle"
    /\ sd_done < MaxShutdowns
    /\ stop_requested_' = TRUE
    /\ st_pc' = "join_monitor"
    /\ UNCHANGED <<configVars, taskVars, usageVars, testVars, callVars>>
    /\ UNCHANGED <<poolVars, outsideRunner>>

\* stop(): join monitor_thread_ if joinable, then enter
\* thread_pool_->shutdown()
RunnerStopJoinMonitor ==
    /\ st_pc = "join_monitor"
    /\ rmon_pc \in {"none", "exited", "joined"}
    /\ rmon_pc' = IF rmon_pc = "exited" THEN "joined" ELSE rmon_pc
    /\ st_pc' = "shutdown"
    /\ ShutdownBegin
    /\ UNCHANGED <<stop_requested_, current_cpu_usage_, current_memory_usage_>>
    /\ UNCHANGED <<configVars, taskVars, testVars, callVars>>
    /\ UNCHANGED outsideRunner

\* stop(): shutdown() has joined the workers, stop() returns
RunnerStopReturn ==
    /\ st_pc = "shutdown"
    /\ ShutdownJoin
    /\ st_pc' = "idle"
    /\ UNCHANGED stop_requested_
    /\ UNCHANGED <<configVars, taskVars, usageVars, testVars, callVars>>
    /\ UNCHANGED outsideRunner

\* =================================================================
\* ResourceMonitor
\* =================================================================

cpu_alert_threshold == 90       \* Config::cpu_alert_threshold = 0.9
memory_alert_threshold == 85    \* Config::memory_alert_threshold = 0.85

\* ResourceMetrics: the two usage figures and the timestamp
Metrics(cpu, mem, ts) ==
    [cpu_usage_percent |-> cpu, memory_usage_percent |-> mem, timestamp |-> ts]

\* a monitor after construction: nothing runs, the history is empty,
\* current_metrics_ has no initialiser and holds whatever was in memory
MonInit ==
    /\ history_size \in 0..MaxHistory
    /\ running_ = FALSE
    /\ monitor_thread_ = 0
    /\ mon_pc = [s \in Samplers |-> "none"]
    /\ next_thread = 1
    /\ history_ = <<>>
    /\ current_metrics_ \in {Metrics(c, m, 0) : c \in Levels, m \in Levels}
    /\ clock = 0
    /\ alert_callback_ \in BOOLEAN
    /\ last_cpu_alert_level_ = 0
    /\ last_memory_alert_level_ = 0
    /\ alerts = {}
    /\ ctl_pc = [c \in Controllers |-> "idle"]
    /\ ncalls = 0
    /\ last_call = "none"
    /\ proc = "alive"
    /\ alert_thresholds = [cpu |-> cpu_alert_threshold,
                           memory |-> memory_alert_threshold]

\* start(): `if (running_.exchange(true)) return;`
StartIsNoopNever == FALSE
StartIsNoop == running_

\* start(): a call that finds the monitor running returns, any other call
\* sets running_ and move-assigns a new thread to monitor_thread_, which
\* calls std::terminate when monitor_thread_ is still joinable
MonStart(c) ==
    /\ proc = "alive"
    /\ ctl_pc[c] = "idle"
    /\ ncalls < MaxCalls
    /\ ncalls' = ncalls + 1
    /\ running_' = TRUE
    /\ IF StartIsNoop
         THEN /\ last_call' = "start_noop"
              /\ UNCHANGED <<monitor_thread_, mon_pc, next_thread, proc>>
         ELSE /\ last_call' = "start"
              /\ mon_pc' = [mon_pc EXCEPT ![next_thread] = "loop"]
              /\ next_thread' = next_thread + 1
              /\ IF monitor_thread_ # 0
                   THEN proc' = "terminated" /\ UNCHANGED monitor_thread_
                   ELSE monitor_thread_' = next_thread /\ UNCHANGED proc
    /\ UNCHANGED <<history_size, history_, current_metrics_, clock,
                   alert_callback_, last_cpu_alert_level_,
                   last_memory_alert_level_, alerts, ctl_pc>>
    /\ UNCHANGED outsideMon

\* stop(): `if (!running_.exchange(false)) return;`
StopIsNoopNever == FALSE
StopIsNoop == ~running_

\* stop(): a call that finds the monitor stopped returns, any other call
\* clears running_ and goes on to join monitor_thread_ if it is joinable
MonStop(c) ==
    /\ proc = "alive"
    /\ ctl_pc[c] = "idle"
    /\ ncalls < MaxCalls
    /\ ncalls' = ncalls + 1
    /\ running_' = FALSE
    /\ IF StopIsNoop
         THEN /\ last_call' = "stop_noop"
              /\ UNCHANGED ctl_pc
         ELSE IF monitor_thread_ = 0
           THEN /\ last_call' = "stop"
                /\ UNCHANGED ctl_pc
           ELSE /\ last_call' = "stopping"
                /\ ctl_pc' = [ctl_pc EXCEPT ![c] = "joining"]
    /\ UNCHANGED <<history_size, monitor_thread_, mon_pc, next_thread,
                   history_, current_metrics_, clock, alert_callback_,
                   last_cpu_alert_level_, last_memory_alert_level_, alerts,
                   proc>>
    /\ UNCHANGED outsideMon

\* stop(): `monitor_thread_.join()` returns once monitor_loop() has
\* returned, and stop() returns
MonStopJoin(c) ==
    /\ proc = "alive"
    /\ ctl_pc[c] = "joining"
    /\ monitor_thread_ # 0
    /\ mon_pc[monitor_thread_] = "exited"
    /\ mon_pc' = [mon_pc EXCEPT ![monitor_thread_] = "joined"]
    /\ monitor_thread_' = 0
    /\ ctl_pc' = [ctl_pc EXCEPT ![c] = "idle"]
    /\ last_call' = "stop"
    /\ UNCHANGED <<history_size, running_, next_thread, history_,
                   current_metrics_, clock, alert_callback_,
                   last_cpu_alert_level_, last_memory_alert_level_, alerts,
                   ncalls, proc>>
    /\ UNCHANGED outsideMon

\* monitor_loop(): `while (running_)`
MonitorLoopCheck(s) ==
    /\ proc = "alive"
    /\ mon_pc[s] = "loop"
    /\ mon_pc' = [mon_pc EXCEPT ![s] = IF running_ THEN "sample" ELSE "exited"]
    /\ UNCHANGED <<history_size, running_, monitor_thread_, next_thread,
                   history_, current_metrics_, clock, alert_callback_,
                   last_cpu_alert_level_, last_memory_alert_level_, alerts,
                   ctl_pc, ncalls, last_call, proc>>
    /\ UNCHANGED outsideMon

\* add_to_history(): `if (history_.size() >= config_.history_size)`
HistoryFullAtLimitOnly(h) == Len(h) > history_size
HistoryFull(h) == Len(h) >= history_size

\* add_to_history(): `history_.erase(history_.begin())` on a non-empty
\* history, then `history_.push_back(metrics)`
AddToHistory(h, m) ==
    IF HistoryFull(h) THEN Append(Tail(h), m) ELSE Append(h, m)

\* check_alerts(): one resource.  Above the threshold the last level is
\* exchanged for the reading and the callback fires if the last level was at
\* or below the threshold; otherwise the reading becomes the last level.
AlertFires(reading, last, threshold) ==
    reading > threshold /\ last <= threshold

\* monitor_loop(): one sample: collect_metrics(), then under metrics_mutex_
\* the assignment of current_metrics_ and add_to_history(), then
\* check_alerts() (enable_alerts is on), then the sleep.  With
\* history_size = 0 add_to_history() erases begin() of an empty vector,
\* which is undefined: the process crashes, or the erase has no effect and
\* the sample is appended, or the vector ends up empty again.
MonitorSampleCall(s, cpu, mem) ==
    /\ proc = "alive"
    /\ mon_pc[s] = "sample"
    /\ clock < MaxSamples
    /\ clock' = clock + 1
    /\ LET m == Metrics(cpu, mem, clock + 1) IN
         /\ current_metrics_' = m
         /\ IF HistoryFull(history_) /\ history_ = <<>>
              THEN \/ /\ proc' = "crashed"
                      /\ history_' = <<>>
                   \/ /\ proc' = "alive"
                      /\ history_' \in {<<m>>, <<>>}
              ELSE /\ history_' = AddToHistory(history_, m)
                   /\ UNCHANGED proc
         /\ IF alert_callback_
              THEN /\ last_cpu_alert_level_' = cpu
                   /\ last_memory_alert_level_' = mem
                   /\ alerts' = alerts
                        \cup (IF AlertFires(cpu, last_cpu_alert_level_,
                                            alert_thresholds.cpu)
                                THEN {<<"cpu", clock + 1>>} ELSE {})
                        \cup (IF AlertFires(mem, last_memory_alert_level_,
                                            alert_thresholds.memory)
                                THEN {<<"memory", clock + 1>>} ELSE {})
              ELSE UNCHANGED <<last_cpu_alert_level_,
                               last_memory_alert_level_, alerts>>
    /\ mon_pc' = [mon_pc EXCEPT ![s] = "loop"]
    /\ UNCHANGED <<history_size, running_, monitor_thread_, next_thread,
                   alert_callback_, ctl_pc, ncalls, last_call>>

MonitorSample(s, cpu, mem) == MonitorSampleCall(s, cpu, mem) /\ UNCHANGED outsideMon

besideMonitors == <<poolVars, clientVars, runnerVars, armVars, others>>
outsideMonitors == <<besideMonitors, lockVars>>
outsideArm == <<poolVars, clientVars, runnerVars, monVars, monCfgVars, others,
               lockVars>>
outsideDist == <<poolVars, clientVars, runnerVars, monVars, monCfgVars,
                 armVars, codec, dbVars, lockVars>>
outsideCodec == <<poolVars, clientVars, runnerVars, monVars, monCfgVars,
                  armVars, distVars, dbVars, lockVars>>
besideDb == <<poolVars, clientVars, runnerVars, monVars, monCfgVars,
              armVars, distVars, codec>>
outsideDb == <<besideDb, lockVars>>

\* the rest of the monitor, which the setters leave alone
monRest == <<history_size, running_, monitor_thread_, mon_pc, next_thread,
             history_, current_metrics_, clock, last_cpu_alert_level_,
             last_memory_alert_level_, alerts, ctl_pc, ncalls, last_call,
             proc>>

\* set_alert_callback(): `alert_callback_ = std::move(callback)`; an empty
\* std::function removes the callback
SetAlertCallbackCall(installed) ==
    /\ proc = "alive"
    /\ alert_callback_' = installed
    /\ UNCHANGED <<monRest, monCfgVars>>

SetAlertCallback(installed) == SetAlertCallbackCall(installed) /\ UNCHANGED outsideMonitors

\* set_cpu_threshold(): `config_.cpu_alert_threshold = threshold`
SetCpuThresholdCall(threshold) ==
    /\ proc = "alive"
    /\ alert_thresholds' = [alert_thresholds EXCEPT !.cpu = threshold]
    /\ UNCHANGED monVars

SetCpuThreshold(threshold) == SetCpuThresholdCall(threshold) /\ UNCHANGED outsideMonitors

\* set_memory_threshold(): `config_.memory_alert_threshold = threshold`
SetMemoryThresholdCall(threshold) ==
    /\ proc = "alive"
    /\ alert_thresholds' = [alert_thresholds EXCEPT !.memory = threshold]
    /\ UNCHANGED monVars

SetMemoryThreshold(threshold) == SetMemoryThresholdCall(threshold) /\ UNCHANGED outsideMonitors

\* =================================================================
\* AdaptiveResourceManager
\* =================================================================
\* Usage figures, targets and the adjustment factor are fractions in the
\* code (0.7 is 70%); here they are whole percents and the double
\* arithmetic is done exactly on fractions of integers.

PoolSizes == 0..MaxPoolSize

\* a size_t far above every max_threads
HugeSize == MaxPoolSize + 4

\* static_cast<size_t> of a double that is -1 or below is undefined: the
\* builds give 0 or a huge value
UndefinedSizes == {0, HugeSize}

\* an AdaptiveResourceManager with one registered pool, before start()
ArmInit ==
    /\ arm_config \in [target_cpu_usage : {50, 70},
                        target_memory_usage : {60},
                        adjustment_factor : {20, 200},
                        min_threads : {1, 2},
                        max_threads : {4}]
    /\ pool_current_size \in PoolSizes
    /\ arm_last = [called |-> FALSE]

\* `std::max(cpu_ratio, memory_ratio)` as a fraction <<numerator,
\* denominator>>: the reading over its target, for the larger ratio
ConstraintRatio(cpu, mem) ==
    IF cpu * arm_config.target_memory_usage
           < mem * arm_config.target_cpu_usage
      THEN <<mem, arm_config.target_memory_usage>>
      ELSE <<cpu, arm_config.target_cpu_usage>>

\* `constraint_ratio > 1.1` and `constraint_ratio < 0.9`
Overused(r) == 10 * r[1] > 11 * r[2]
Underused(r) == 10 * r[1] < 9 * r[2]

\* scale_factor as a fraction over 100 * r[2]:
\* 1.0 - adjustment_factor * (ratio - 1.0), 1.0 + adjustment_factor * (1.0 - ratio)
ScaleDown(r) == 100 * r[2] - arm_config.adjustment_factor * (r[1] - r[2])
ScaleUp(r) == 100 * r[2] + arm_config.adjustment_factor * (r[2] - r[1])

\* `static_cast<size_t>(current_size * scale_factor)`: truncation toward
\* zero, the possible results as a set
Truncated(p, den) ==
    IF p >= 0 THEN {p \div den}
    ELSE IF -p < den THEN {0}
    ELSE UndefinedSizes

\* `std::clamp(optimal_size, pool.min_threads, pool.max_threads)`
ClampUnbounded(v, lo, hi) == v
Clamp(v, lo, hi) == IF v < lo THEN lo ELSE IF hi < v THEN hi ELSE v

Abs(x) == IF x < 0 THEN -x ELSE x

\* `if (abs(optimal - current) < 2) optimal_size = current_size`
AvoidSmallAdjustmentAlways(optimal, current) == current
AvoidSmallAdjustment(optimal, current) ==
    IF Abs(optimal - current) < 2 THEN current ELSE optimal

\* the sizes before the constraints are applied
ScaledSizes(cpu, mem, current) ==
    LET r == ConstraintRatio(cpu, mem) IN
      IF Overused(r) THEN Truncated(current * ScaleDown(r), 100 * r[2])
      ELSE IF Underused(r) THEN Truncated(current * ScaleUp(r), 100 * r[2])
      ELSE {current}

\* calculate_optimal_threads(): the sizes it can return
CalculateOptimalThreads(cpu, mem, current) ==
    {AvoidSmallAdjustment(Clamp(v, arm_config.min_threads,
                                arm_config.max_threads), current) :
        v \in ScaledSizes(cpu, mem, current)}

\* adjust_thread_pools(): the current metrics, then for the pool the
\* optimal size and `if (optimal_size != current_size) pool.set_size(...)`
AdjustThreadPools(cpu, mem) ==
    /\ \E optimal \in CalculateOptimalThreads(cpu, mem, pool_current_size) :
         /\ arm_last' = [called |-> TRUE, cpu |-> cpu, mem |-> mem,
                         current |-> pool_current_size, optimal |-> optimal,
                         set_size |-> optimal # pool_current_size]
         /\ pool_current_size' = optimal
    /\ UNCHANGED arm_config
    /\ UNCHANGED outsideArm

\* the pool changes size on its own: get_current_size() is the pool's
\* closure and reports whatever the pool holds
PoolResized(n) ==
    /\ n # pool_current_size
    /\ pool_current_size' = n
    /\ UNCHANGED <<arm_config, arm_last>>
    /\ UNCHANGED outsideArm

\* ------------------------------------------------------ manual overrides
\* Arguments of type size_t are kept modulo 2^64: a value of 2^64 - k is
\* written -k, so that sums and differences are those of the integers and
\* only the comparisons differ.
SizeMax == 0 - 1
ULess(a, b) == IF (a < 0) = (b < 0) THEN a < b ELSE b < 0
UMin(a, b) == IF ULess(b, a) THEN b ELSE a
UMax(a, b) == IF ULess(a, b) THEN b ELSE a

\* the name under which the pool was registered, and the names callers pass
PoolName == "pool"
PoolNames == {"pool", "other"}

\* scale_up(): `std::min(current + additional_threads, it->max_threads)`
ScaledUp(current, additional) ==
    UMin(current + additional, arm_config.max_threads)

\* scale_down(): `(current > threads_to_remove) ? current -
\* threads_to_remove : it->min_threads`, then `std::max(new_size,
\* it->min_threads)`
ScaledDown(current, remove) ==
    UMax(IF ULess(remove, current) THEN current - remove
                                   ELSE arm_config.min_threads,
         arm_config.min_threads)

\* what a manual override leaves in arm_last
Override(op, name, current, size, called) ==
    [called |-> TRUE, op |-> op, name |-> name, current |-> current,
     optimal |-> size, set_size |-> called]

\* scale_up(), scale_down(): under pools_mutex_ find the pool by name; if
\* it is there read its size and call set_size with the new size
ManualScale(op, name, size) ==
    /\ IF name = PoolName
         THEN /\ pool_current_size' = size
              /\ arm_last' = Override(op, name, pool_current_size, size, TRUE)
         ELSE /\ UNCHANGED pool_current_size
              /\ arm_last' = Override(op, name, pool_current_size,
                                      pool_current_size, FALSE)
    /\ UNCHANGED arm_config
    /\ UNCHANGED outsideArm

ManualScaleUp(name, additional) ==
    ManualScale("scale_up", name, ScaledUp(pool_current_size, additional))

ManualScaleDown(name, remove) ==
    ManualScale("scale_down", name, ScaledDown(pool_current_size, remove))

\* set_all_pools(): for every pool `std::clamp(thread_count,
\* pool.min_threads, pool.max_threads)` (on size_t) and set_size
SetAllPools(count) ==
    LET size == UMin(UMax(count, arm_config.min_threads),
                     arm_config.max_threads) IN
      /\ pool_current_size' = size
      /\ arm_last' = Override("set_all_pools", PoolName, pool_current_size,
                              size, TRUE)
      /\ UNCHANGED arm_config
      /\ UNCHANGED outsideArm

\* =================================================================
\* TestDistributor
\* =================================================================
\* Runner indices are those of the code, 0 .. runners_.size() - 1.  A
\* runner's run_all() pops every pending task and returns one result per
\* popped task; a result is represented by the id of its task.

RunnerIds == 0..(MaxRunners - 1)
DistTasks == 1..MaxDistTasks
Adders == {"a1", "a2"}
Strategies == {"ROUND_ROBIN", "LOAD_BALANCED", "AFFINITY_BASED"}
NotAdding == <<-1, 0>>

\* DistributionStrategy: `Type type = ROUND_ROBIN;` and an empty
\* custom_selector
DefaultStrategy == [type |-> "ROUND_ROBIN", custom_selector |-> FALSE]
DistributionStrategy == [type : Strategies, custom_selector : BOOLEAN]

\* the strategies that use no selector of the caller
BuiltInStrategies == {s \in DistributionStrategy : ~s.custom_selector}

\* what a caller-supplied selector may return: any size_t, here the
\* indices of the runners that can exist and the one past them
SelectorReturns == 0..MaxRunners

\* the runners the distributor holds
Runners == {i \in RunnerIds : i < td_size}

\* before the constructor runs
DistInit ==
    /\ td_state = "none"
    /\ td_size = 0
    /\ strategy_ = DefaultStrategy
    /\ round_robin_counter_ = 0
    /\ td_pending = [i \in RunnerIds |-> <<>>]
    /\ td_adders = [a \in Adders |-> NotAdding]
    /\ td_next = 1
    /\ td_assigned = [t \in DistTasks |-> -1]
    /\ td_pc = "idle"
    /\ td_runner_pc = [i \in RunnerIds |-> "idle"]
    /\ td_runner_results = [i \in RunnerIds |-> <<>>]
    /\ td_all_results = <<>>
    /\ td_runs = 0
    /\ td_entry = {}
    /\ td_overlap = FALSE

\* TestDistributor(): `if (runners_.empty()) throw PBTException(
\* INVALID_ARGUMENT, ...)`
RunnersEmptyNever(n) == FALSE
RunnersEmpty(n) == n = 0

DistConstruct(n, strategy) ==
    /\ td_state = "none"
    /\ IF RunnersEmpty(n)
         THEN /\ td_state' = "threw"
              /\ UNCHANGED <<td_size, strategy_>>
         ELSE /\ td_state' = "constructed"
              /\ td_size' = n
              /\ strategy_' = strategy
    /\ UNCHANGED <<round_robin_counter_, td_pending, td_adders, td_next,
                   td_assigned, td_pc, td_runner_pc, td_runner_results,
                   td_all_results, td_runs, td_entry, td_overlap>>
    /\ UNCHANGED outsideDist

\* select_runner(), LOAD_BALANCED: the scan keeps the first runner whose
\* get_pending_tests() is below every earlier one (`pending < min_pending`)
LeastPendingLast ==
    CHOOSE i \in Runners :
        /\ \A j \in Runners : Len(td_pending[i]) <= Len(td_pending[j])
        /\ \A j \in Runners :
             Len(td_pending[j]) = Len(td_pending[i]) => j <= i
LeastPending ==
    CHOOSE i \in Runners :
        /\ \A j \in Runners : Len(td_pending[i]) <= Len(td_pending[j])
        /\ \A j \in Runners :
             Len(td_pending[j]) = Len(td_pending[i]) => i <= j

\* select_runner(), ROUND_ROBIN and AFFINITY_BASED without a selector:
\* `round_robin_counter_.fetch_add(1) % runners_.size()`
RoundRobinNext == (round_robin_counter_ + 1) % td_size
RoundRobin == round_robin_counter_ % td_size

\* select_runner(), AFFINITY_BASED: `if (strategy_.custom_selector)` the
\* selector's return value is returned as it is
UsesSelector == strategy_.type = "AFFINITY_BASED" /\ strategy_.custom_selector

\* add_property(): `size_t runner_index = select_runner(name)`; r is what
\* the selector returns when it is called
DistSelect(a, r) ==
    /\ td_state = "constructed"
    /\ td_size > 0
    /\ td_adders[a] = NotAdding
    /\ td_next <= MaxDistTasks
    /\ td_next' = td_next + 1
    /\ IF strategy_.type = "LOAD_BALANCED"
         THEN /\ td_adders' = [td_adders EXCEPT ![a] = <<LeastPending, td_next>>]
              /\ UNCHANGED round_robin_counter_
         ELSE IF UsesSelector
         THEN /\ td_adders' = [td_adders EXCEPT ![a] = <<r, td_next>>]
              /\ UNCHANGED round_robin_counter_
         ELSE /\ td_adders' = [td_adders EXCEPT ![a] = <<RoundRobin, td_next>>]
              /\ round_robin_counter_' = round_robin_counter_ + 1
    /\ td_overlap' = (\/ td_overlap
                      \/ \E b \in Adders : td_adders[b] # NotAdding
                      \/ \E i \in Runners : td_runner_pc[i] = "running")
    /\ UNCHANGED <<td_state, td_size, strategy_, td_pending, td_assigned,
                   td_pc, td_runner_pc, td_runner_results, td_all_results,
                   td_runs, td_entry>>
    /\ UNCHANGED outsideDist

\* add_property(): `runners_[runner_index]->add_property(...)`, which
\* pushes the task on that runner's pending_tasks_.  The index is not
\* checked: with an index past the end of runners_ the call goes through
\* whatever lies behind the vector, and the process is killed or goes on
\* with the task in no runner's queue.
DistPush(a) ==
    /\ td_state = "constructed"
    /\ td_adders[a] # NotAdding
    /\ LET i == td_adders[a][1]
           t == td_adders[a][2] IN
         /\ td_assigned' = [td_assigned EXCEPT ![t] = i]
         /\ IF i \in Runners
              THEN /\ td_pending' = [td_pending EXCEPT ![i] = Append(@, t)]
                   /\ UNCHANGED td_state
              ELSE /\ UNCHANGED td_pending
                   /\ \/ td_state' = "crashed"
                      \/ UNCHANGED td_state
    /\ td_adders' = [td_adders EXCEPT ![a] = NotAdding]
    /\ td_overlap' = (\/ td_overlap
                      \/ \E i \in Runners : td_runner_pc[i] = "running")
    /\ UNCHANGED <<td_size, strategy_, round_robin_counter_,
                   td_next, td_pc, td_runner_pc, td_runner_results,
                   td_all_results, td_runs, td_entry>>
    /\ UNCHANGED outsideDist

\* run_all(): the first loop, one std::async per runner that calls the
\* runner's run_all()
DistRunAllBegin ==
    /\ td_state = "constructed"
    /\ td_pc \in {"idle", "returned"}
    /\ td_runs < MaxDistRuns
    /\ td_runs' = td_runs + 1
    /\ td_pc' = "collecting"
    /\ td_runner_pc' = [i \in RunnerIds |->
                           IF i \in Runners THEN "running" ELSE "idle"]
    /\ td_runner_results' = [i \in RunnerIds |-> <<>>]
    /\ td_all_results' = <<>>
    /\ td_overlap' = (\/ td_overlap
                      \/ \E b \in Adders : td_adders[b] # NotAdding)
    /\ td_entry' = {t \in DistTasks :
                       \E i \in Runners :
                           \E k \in 1..Len(td_pending[i]) :
                               td_pending[i][k] = t}
    /\ UNCHANGED <<td_state, td_size, strategy_, round_robin_counter_,
                   td_pending, td_adders, td_next, td_assigned>>
    /\ UNCHANGED outsideDist

\* a runner's run_all(): one pending task is popped, run, and its result
\* is appended to what the call returns
DistRunnerRunOne(i) ==
    /\ td_state = "constructed"
    /\ td_runner_pc[i] = "running"
    /\ td_pending[i] # <<>>
    /\ td_pending' = [td_pending EXCEPT ![i] = Tail(@)]
    /\ td_runner_results' =
           [td_runner_results EXCEPT ![i] = Append(@, Head(td_pending[i]))]
    /\ UNCHANGED <<td_state, td_size, strategy_, round_robin_counter_,
                   td_adders, td_next, td_assigned, td_pc, td_runner_pc,
                   td_all_results, td_runs, td_entry, td_overlap>>
    /\ UNCHANGED outsideDist

\* a runner's run_all(): pending_tasks_ is empty, the results are
\* collected and the call returns them into the future
DistRunnerFinish(i) ==
    /\ td_state = "constructed"
    /\ td_runner_pc[i] = "running"
    /\ td_pending[i] = <<>>
    /\ td_runner_pc' = [td_runner_pc EXCEPT ![i] = "done"]
    /\ UNCHANGED <<td_state, td_size, strategy_, round_robin_counter_,
                   td_pending, td_adders, td_next, td_assigned, td_pc,
                   td_runner_results, td_all_results, td_runs, td_entry,
                   td_overlap>>
    /\ UNCHANGED outsideDist

\* run_all(): `future.get()` blocks until the runner's call has returned
FutureReadyAlways(i) == TRUE
FutureReady(i) == td_runner_pc[i] = "done"

\* run_all(): the second loop, `all_results.push_back(future.get())` for
\* the next future
DistCollect ==
    /\ td_state = "constructed"
    /\ td_pc = "collecting"
    /\ Len(td_all_results) < td_size
    /\ LET i == Len(td_all_results) IN
         /\ FutureReady(i)
         /\ td_all_results' = Append(td_all_results, td_runner_results[i])
    /\ UNCHANGED <<td_state, td_size, strategy_, round_robin_counter_,
                   td_pending, td_adders, td_next, td_assigned, td_pc,
                   td_runner_pc, td_runner_results, td_runs, td_entry,
                   td_overlap>>
    /\ UNCHANGED outsideDist

\* run_all(): `return all_results`
DistReturn ==
    /\ td_state = "constructed"
    /\ td_pc = "collecting"
    /\ Len(td_all_results) = td_size
    /\ td_pc' = "returned"
    /\ UNCHANGED <<td_state, td_size, strategy_, round_robin_counter_,
                   td_pending, td_adders, td_next, td_assigned, td_runner_pc,
                   td_runner_results, td_all_results, td_runs, td_entry,
                   td_overlap>>
    /\ UNCHANGED outsideDist

\* =================================================================
\* Compression strategies
\* =================================================================
\* A byte string is a sequence of runs <<byte, count>>, adjacent runs of
\* different bytes, so that strings of 4 GiB and more can be written down.
\* A byte vector that compress() returns is [format, stream]: with format
\* "raw" the stream is the bytes themselves, with format "gzip" it is the
\* string the deflate stream between the gzip header and trailer encodes.

Bytes == {"a", "b"}

\* A size_t is written <<q, r>> for q * 2^32 + r, with r below 2^31.
Wide(q, r) == <<q, r>>
Plus(m, n) == <<m[1] + n[1], m[2] + n[2]>>

\* `static_cast<uInt>(...)`: uInt is zlib's 32-bit unsigned int, the cast
\* keeps the low 32 bits
ToUIntSaturating(n) == IF n[1] > 0 THEN 2147483647 ELSE n[2]
ToUInt(n) == n[2]

\* n >> k for 0 < k < 32, as far as the low 32 bits go
ShiftRight(n, k) == n[1] * 2^(32 - k) + (n[2] \div 2^k)

RunCounts == {Wide(0, 1), Wide(0, 2), Wide(1, 0), Wide(1, 1)}

ByteStrings ==
    {s \in UNION {[1..n -> Bytes \X RunCounts] : n \in 0..MaxRuns} :
        \A k \in 1..(Len(s) - 1) : s[k][1] # s[k + 1][1]}

\* data.size()
RECURSIVE Size(_)
Size(s) == IF s = <<>> THEN Wide(0, 0) ELSE Plus(Head(s)[2], Size(Tail(s)))

\* the first n bytes of s, for n below 2^31
RECURSIVE Take(_, _)
Take(s, n) ==
    IF n = 0 \/ s = <<>> THEN <<>>
    ELSE IF Head(s)[2][1] = 0 /\ Head(s)[2][2] <= n
           THEN <<Head(s)>> \o Take(Tail(s), n - Head(s)[2][2])
           ELSE <<<<Head(s)[1], Wide(0, n)>>>>

Some(v) == <<v>>
Nullopt == <<>>

\* NoCompression::compress and decompress: the bytes are copied
NoCompress(data) == [format |-> "raw", stream |-> data]
NoDecompress(compressed) ==
    IF compressed.format = "raw" THEN Some(compressed.stream)
    ELSE Some(<<<<"gzip member", Wide(0, 1)>>>>)

\* the size of the gzip member that encodes a string: 10 bytes of header,
\* the deflate stream, 8 bytes of trailer
GzipSize(payload) == 20 + 3 * Len(payload)

\* zlib's deflateBound() for the default window and memory level with the
\* gzip wrapper
DeflateBound(n) ==
    Plus(n, Wide(0, ShiftRight(n, 12) + ShiftRight(n, 14) + ShiftRight(n, 25)
                      + 7 + 18))

\* GzipCompression::compress: `zs.avail_in = static_cast<uInt>(data.size())`,
\* the output buffer of deflateBound() bytes with `zs.avail_out =
\* static_cast<uInt>(compressed.size())`, one deflate(Z_FINISH); anything
\* but Z_STREAM_END throws
GzipCompress(data) ==
    LET payload == Take(data, ToUInt(Size(data)))
        avail_out == ToUInt(DeflateBound(Size(data)))
    IN IF GzipSize(payload) > avail_out
         THEN [format |-> "threw", stream |-> <<>>]
         ELSE [format |-> "gzip", stream |-> payload]

\* GzipCompression::decompress: inflate() into a buffer that starts at four
\* times the compressed size and doubles while it is full; anything but
\* Z_OK and Z_STREAM_END gives nullopt
GzipDecompress(compressed) ==
    IF compressed.format = "gzip" THEN Some(compressed.stream) ELSE Nullopt

StrategyNames == {"none", "gzip", "zstd", "lz4"}

\* CompressionStrategy::compress of the four strategies: ZstdCompression
\* and Lz4Compression hand the string to a GzipCompression
Compress(name, data) ==
    IF name = "none" THEN NoCompress(data) ELSE GzipCompress(data)

\* CompressionStrategy::decompress of the four strategies
Decompress(name, compressed) ==
    IF name = "none" THEN NoDecompress(compressed)
    ELSE GzipDecompress(compressed)

\* compressed.size()
VectorSize(compressed) ==
    IF compressed.format = "raw" THEN Size(compressed.stream)
    ELSE Wide(0, GzipSize(compressed.stream))

\* a strategy object and a string that is about to be compressed
CodecInit ==
    codec \in [pc : {"start"}, name : StrategyNames, data : ByteStrings,
               compressed : {NoCompress(<<>>)}, output : {Nullopt}]

\* strategy.compress(data)
CodecCompress ==
    /\ codec.pc = "start"
    /\ LET c == Compress(codec.name, codec.data) IN
         codec' = IF c.format = "threw"
                    THEN [codec EXCEPT !.pc = "threw"]
                    ELSE [codec EXCEPT !.pc = "compressed", !.compressed = c]
    /\ UNCHANGED outsideCodec

\* strategy.decompress(compressed)
CodecDecompress ==
    /\ codec.pc = "compressed"
    /\ codec' = [codec EXCEPT !.pc = "decompressed",
                              !.output = Decompress(codec.name,
                                                    codec.compressed)]
    /\ UNCHANGED outsideCodec

\* =================================================================
\* CounterexampleDatabase
\* =================================================================
\* Times are ticks of the system clock, retention_period is in ticks.  An
\* entry carries the index of the store() call that made it (0 for an
\* entry read from a file), which the code does not have.

TestNames == {"p", "q"}
PropertyNames == {"prop1", "prop2"}

\* the test names an entry can have, in the order of std::string's `<`;
\* the empty one comes from an import that read past the end of its file
NameOrder == <<"", "p", "q">>

Mebibyte == 1024 * 1024

\* the strings handed to store(): one byte, 1 MiB of one byte, and 2 MiB
\* of one byte
DbData == {<<<<"a", Wide(0, 1)>>>>, <<<<"b", Wide(0, Mebibyte)>>>>,
           <<<<"c", Wide(0, 2 * Mebibyte)>>>>}

\* 4 GiB of one byte
HugeData == <<<<"a", Wide(1, 0)>>>>

\* Config::default_compression = "zstd"
DefaultCompression == "zstd"

Entry(name, property, compressed, algorithm, ts, id) ==
    [test_name |-> name, property_name |-> property,
     compressed_data |-> compressed,
     compressed_size |-> VectorSize(compressed),
     compression_algorithm |-> algorithm, timestamp |-> ts, id |-> id]

\* the system clock ticks twice in a millisecond
TicksPerMilli == 2

\* duration_cast<milliseconds>(time_since_epoch).count(), and back
Millis(ts) == ts \div TicksPerMilli
FromMillis(millis) == millis * TicksPerMilli

\* `data_len = static_cast<uint32_t>(compressed_data.size())` and the
\* data_len bytes written after it
WrittenData(compressed) ==
    IF compressed.format = "raw"
      THEN [compressed EXCEPT
              !.stream = Take(compressed.stream,
                              ToUInt(Size(compressed.stream)))]
      ELSE compressed

\* an entry as export_to_file writes it, and as import_from_file reads it
\* back; metadata is not written
Written(e) ==
    [e EXCEPT !.compressed_data = WrittenData(e.compressed_data),
              !.timestamp = Millis(e.timestamp), !.id = 0]
Loaded(w) == [w EXCEPT !.timestamp = FromMillis(w.timestamp)]

\* A file: its magic, version and entry count, the entries in it, and
\* where it ends: "none" for a whole file, "header" for one that ends
\* after the magic, "data" for one that ends inside the compressed data of
\* its last entry, "tail" for one that lacks the last byte of its last
\* entry.
NoFile == [exists |-> FALSE, magic |-> "", version |-> 0, entry_count |-> 0,
           entries |-> <<>>, cut |-> "none"]

\* export_to_file(): the file it writes
ExportFile(entries) ==
    [exists |-> TRUE, magic |-> "PBTC", version |-> 1,
     entry_count |-> Len(entries),
     entries |-> [i \in 1..Len(entries) |-> Written(entries[i])],
     cut |-> "none"]

\* a file written by export_to_file of a database that had "zstd"
\* registered: two entries of one test
SavedFile ==
    ExportFile(<<Entry("p", "prop1", GzipCompress(<<<<"a", Wide(0, 1)>>>>),
                       "zstd", 0, 0),
                 Entry("p", "prop2", GzipCompress(<<<<"a", Wide(0, 2)>>>>),
                       "gzip", 0, 0)>>)

\* the 4-byte file "XBAD"
ForeignFile == [NoFile EXCEPT !.exists = TRUE, !.magic = "XBAD",
                              !.cut = "header"]

\* files that are not what export_to_file wrote
WrongVersion == [SavedFile EXCEPT !.version = 2]
HeaderCut == [NoFile EXCEPT !.exists = TRUE, !.magic = "PBTC",
                            !.cut = "header"]
DataCut == [SavedFile EXCEPT !.cut = "data"]
TailCut == [SavedFile EXCEPT !.cut = "tail"]

Files == {NoFile, SavedFile, ForeignFile, WrongVersion, HeaderCut, DataCut,
          TailCut}

Paths == {"database_path", "export_path"}

NoCall == [op |-> "none", ok |-> TRUE, name |-> "p", data |-> <<>>,
           entry |-> Nullopt, output |-> Nullopt, chain |-> 0,
           file |-> NoFile]

\* before the constructor runs: the Config it will be given, and what is
\* on disk at database_path
DbInit ==
    /\ db_state = "none"
    /\ db_config \in [max_database_size_mb : {1, 100},
                      max_entries_per_test : {1, 2},
                      auto_cleanup : BOOLEAN,
                      retention_period : {0, 100},
                      default_compression : {DefaultCompression, "gzip",
                                             "none"}]
    /\ db_strategies = {}
    /\ db_entries = <<>>
    /\ db_file \in {NoFile, SavedFile}
    /\ db_export = NoFile
    /\ db_now = 0
    /\ db_ops = 0
    /\ db_last = NoCall
    /\ db_ghost = [names |-> <<>>, only_stores |-> TRUE, other_rules |-> FALSE,
                   rejected |-> FALSE, lives |-> 0, left |-> <<>>,
                   limited |-> <<>>, purged |-> 0,
                   exported |-> <<>>]

\* import_from_file() on a whole file: the file is opened, magic and
\* version are checked, and every entry is appended; nothing is removed
ImportThrows(file) ==
    ~file.exists \/ file.magic # "PBTC" \/ file.version # 1
Imported(entries, file) ==
    entries \o [i \in 1..Len(file.entries) |-> Loaded(file.entries[i])]

\* what a failed file.read() leaves in an entry: the lengths are not
\* initialized; here they happen to be 0
EmptyEntry == [Entry("", "", NoCompress(<<>>), "", 0, 0) EXCEPT
                 !.compressed_data = [format |-> "raw", stream |-> <<>>]]

\* the last entry of a file that ends inside its compressed data: the
\* names are read, the data is short, and the rest is as in EmptyEntry
ShortEntry(w) ==
    [EmptyEntry EXCEPT !.test_name = w.test_name,
                       !.property_name = w.property_name]

\* the last entry of a file that lacks its last byte: resize() has filled
\* the algorithm name with zero bytes and read() replaced all but the last
LastByteZero(w) ==
    [Loaded(w) EXCEPT !.compression_algorithm = "zero-terminated"]

AllButLast(s) == SubSeq(s, 1, Len(s) - 1)

Threw(entries) == [ok |-> FALSE, entries |-> entries]
Returned_(entries) == [ok |-> TRUE, entries |-> entries]

\* import_from_file(): what it may do.  No read is checked, so at the end
\* of the file the variables read keep what they held: `version` and
\* `entry_count` and the lengths are not initialized, resize() with such a
\* length may throw, and an entry is appended for each round of the loop
\* that gets to its end.
ImportOutcomes(entries, file) ==
    IF ~file.exists \/ file.magic # "PBTC" THEN {Threw(entries)}
    ELSE IF file.cut = "header"
      THEN {Threw(entries), Returned_(entries),
            Threw(Append(entries, EmptyEntry)),
            Returned_(Append(entries, EmptyEntry))}
    ELSE IF file.version # 1 THEN {Threw(entries)}
    ELSE IF file.cut = "data"
      THEN LET whole == Imported(entries,
                           [file EXCEPT !.entries = AllButLast(@)])
               short == ShortEntry(file.entries[Len(file.entries)])
           IN {Threw(whole), Returned_(Append(whole, short))}
    ELSE IF file.cut = "tail"
      THEN LET whole == Imported(entries,
                           [file EXCEPT !.entries = AllButLast(@)])
               last == LastByteZero(file.entries[Len(file.entries)])
           IN {Returned_(Append(whole, last))}
    ELSE {Returned_(Imported(entries, file))}

\* the constructor: "none" and "gzip" are registered, then
\* initialize_database() imports database_path if it exists and swallows
\* what the import throws
DbConstruct ==
    /\ db_state = "none"
    /\ db_ghost.lives < MaxLives
    /\ db_state' = "open"
    /\ db_strategies' = {"none", "gzip"}
    /\ db_last' = [NoCall EXCEPT !.op = "construct"]
    /\ IF db_file.exists
         THEN \E outcome \in ImportOutcomes(<<>>, db_file) :
                /\ db_entries' = outcome.entries
                /\ db_ghost' = [db_ghost EXCEPT !.only_stores = FALSE,
                                                !.lives = @ + 1]
         ELSE /\ db_entries' = <<>>
              /\ db_ghost' = [db_ghost EXCEPT !.lives = @ + 1]
    /\ UNCHANGED <<db_config, db_file, db_export, db_now, db_ops>>
    /\ UNCHANGED outsideDb

\* the destructor, `= default`: the entries go with the object
DbDestroy ==
    /\ db_state = "open"
    /\ db_state' = "none"
    /\ db_strategies' = {}
    /\ db_entries' = <<>>
    /\ db_last' = [NoCall EXCEPT !.op = "destroy"]
    /\ db_ghost' = [db_ghost EXCEPT !.only_stores = FALSE,
                                    !.left = db_entries]
    /\ UNCHANGED <<db_config, db_file, db_export, db_now, db_ops>>
    /\ UNCHANGED outsideDb

\* impl_->query_by_test()
QueryByTest(entries, name) ==
    SelectSeq(entries, LAMBDA e : e.test_name = name)

\* cleanup_old_entries(): `entry.timestamp < cutoff` is removed
CleanupOwnEntries(entries) ==
    SelectSeq(entries,
              LAMBDA e : \/ e.id = 0
                         \/ ~(e.timestamp < db_now - db_config.retention_period))
CleanupOldEntries(entries) ==
    SelectSeq(entries,
              LAMBDA e : ~(e.timestamp < db_now - db_config.retention_period))

\* the timestamps of a test's entries, newest first, as std::sort with
\* `a.timestamp > b.timestamp` leaves them
RECURSIVE NewestFirst(_)
NewestFirst(entries) ==
    IF entries = <<>> THEN <<>>
    ELSE LET k == CHOOSE i \in 1..Len(entries) :
                    \A j \in 1..Len(entries) :
                        entries[j].timestamp <= entries[i].timestamp
         IN <<entries[k].timestamp>>
              \o NewestFirst(SubSeq(entries, 1, k - 1)
                               \o SubSeq(entries, k + 1, Len(entries)))

Matches(e, name, ts) == e.test_name = name /\ e.timestamp = ts

\* std::find_if over impl_->entries: the first entry with the test name
\* and the timestamp
LastMatch(entries, name, ts) ==
    CHOOSE i \in 1..Len(entries) :
        /\ Matches(entries[i], name, ts)
        /\ \A j \in (i + 1)..Len(entries) : ~Matches(entries[j], name, ts)
FirstMatch(entries, name, ts) ==
    CHOOSE i \in 1..Len(entries) :
        /\ Matches(entries[i], name, ts)
        /\ \A j \in 1..(i - 1) : ~Matches(entries[j], name, ts)

Without(entries, i) ==
    SubSeq(entries, 1, i - 1) \o SubSeq(entries, i + 1, Len(entries))

\* enforce_size_limits(), the removal loop of one test: for every
\* timestamp past the first max_entries_per_test, the first matching
\* entry is erased
RECURSIVE RemoveOldEntries(_, _, _)
RemoveOldEntries(entries, name, stamps) ==
    IF stamps = <<>> THEN entries
    ELSE RemoveOldEntries(
             Without(entries, FirstMatch(entries, name, Head(stamps))),
             name, Tail(stamps))

\* enforce_size_limits(), one test: `if (count > max_entries_per_test)`
EnforceTestLimit(entries, name) ==
    LET mine == QueryByTest(entries, name)
        keep == db_config.max_entries_per_test
    IN IF Len(mine) > keep
         THEN RemoveOldEntries(entries, name,
                               SubSeq(NewestFirst(mine), keep + 1, Len(mine)))
         ELSE entries

\* enforce_size_limits(), every test
RECURSIVE EnforceTestLimits(_, _)
EnforceTestLimits(entries, names) ==
    IF names = <<>> THEN entries
    ELSE EnforceTestLimits(EnforceTestLimit(entries, Head(names)),
                           Tail(names))

\* impl_->total_size()
RECURSIVE TotalSize(_)
TotalSize(entries) ==
    IF entries = <<>> THEN Wide(0, 0)
    ELSE Plus(Head(entries).compressed_size, TotalSize(Tail(entries)))

MaxSizeBytes == db_config.max_database_size_mb * Mebibyte

\* `impl_->total_size() > max_size_bytes`
OverLimit(entries) ==
    TotalSize(entries)[1] > 0 \/ TotalSize(entries)[2] > MaxSizeBytes

\* std::min_element by timestamp: the first of the oldest entries
Newest(entries) ==
    CHOOSE i \in 1..Len(entries) :
        /\ \A j \in 1..Len(entries) :
             entries[j].timestamp <= entries[i].timestamp
        /\ \A j \in (i + 1)..Len(entries) :
             entries[j].timestamp # entries[i].timestamp
Oldest(entries) ==
    CHOOSE i \in 1..Len(entries) :
        /\ \A j \in 1..Len(entries) :
             entries[i].timestamp <= entries[j].timestamp
        /\ \A j \in 1..(i - 1) : entries[j].timestamp # entries[i].timestamp

\* enforce_size_limits(), the total size: the oldest entry is erased while
\* the total is over the limit
RECURSIVE EnforceTotalSize(_)
EnforceTotalSize(entries) ==
    IF OverLimit(entries) /\ entries # <<>>
      THEN EnforceTotalSize(Without(entries, Oldest(entries)))
      ELSE entries

\* enforce_size_limits(): every test, then the total size
EnforceSizeLimits(entries) ==
    EnforceTotalSize(EnforceTestLimits(entries, NameOrder))

\* compress_data(): an algorithm that is not registered throws
CompressThrowsNever(data) == FALSE
CompressThrows(data) ==
    \/ db_config.default_compression \notin db_strategies
    \/ Compress(db_config.default_compression, data).format = "threw"

Called(call) ==
    /\ db_state = "open"
    /\ db_ops < MaxDbOps
    /\ db_ops' = db_ops + 1
    /\ db_last' = call

\* store(): compress, append the entry stamped with now(), and with
\* auto_cleanup cleanup_old_entries() and enforce_size_limits()
StoreCall(name, property, data) ==
    /\ Called([NoCall EXCEPT !.op = "store", !.ok = ~CompressThrows(data),
                             !.name = name, !.data = data, !.chain = 1])
    /\ IF CompressThrows(data)
         THEN /\ UNCHANGED db_entries
              /\ db_ghost' = [db_ghost EXCEPT !.rejected = TRUE]
         ELSE LET id == Len(db_ghost.names) + 1
                  added == Append(db_entries,
                               Entry(name, property,
                                     Compress(db_config.default_compression,
                                              data),
                                     db_config.default_compression, db_now,
                                     id))
                  fresh == CleanupOldEntries(added)
                  limited == EnforceTestLimits(fresh, NameOrder)
              IN /\ db_entries' = IF db_config.auto_cleanup
                                    THEN EnforceSizeLimits(fresh) ELSE added
                 /\ db_ghost' =
                      [db_ghost EXCEPT
                         !.names = Append(db_ghost.names, name),
                         !.limited = limited,
                         !.purged = Len(added) - Len(fresh),
                         !.other_rules =
                            \/ db_ghost.other_rules
                            \/ /\ db_config.auto_cleanup
                               /\ \/ fresh # added
                                  \/ EnforceTotalSize(limited) # limited]
    /\ UNCHANGED <<db_state, db_config, db_strategies, db_file, db_export,
                   db_now>>

DbStore(name, property, data) == StoreCall(name, property, data) /\ UNCHANGED outsideDb

\* export_to_file()
DbExport(path) ==
    /\ Called([NoCall EXCEPT !.op = "export"])
    /\ IF path = "database_path"
         THEN /\ db_file' = ExportFile(db_entries)
              /\ UNCHANGED <<db_export, db_ghost>>
         ELSE /\ db_export' = ExportFile(db_entries)
              /\ db_ghost' = [db_ghost EXCEPT !.exported = db_entries]
              /\ UNCHANGED db_file
    /\ UNCHANGED <<db_state, db_config, db_strategies, db_entries, db_now>>
    /\ UNCHANGED outsideDb

\* import_from_file()
DbImport(file) ==
    \E outcome \in ImportOutcomes(db_entries, file) :
        /\ Called([NoCall EXCEPT !.op = "import", !.ok = outcome.ok,
                                 !.file = file])
        /\ db_entries' = outcome.entries
        /\ db_ghost' = [db_ghost EXCEPT
                          !.only_stores = @ /\ outcome.entries = db_entries]
        /\ UNCHANGED <<db_state, db_config, db_strategies, db_file, db_export,
                       db_now>>
        /\ UNCHANGED outsideDb

\* register_compression() of the ZstdCompression placeholder
RegisterCompressionCall(name) ==
    /\ Called([NoCall EXCEPT !.op = "register_compression"])
    /\ db_strategies' = db_strategies \cup {name}
    /\ UNCHANGED <<db_state, db_config, db_entries, db_file, db_export,
                   db_now, db_ghost>>

DbRegisterCompression(name) == RegisterCompressionCall(name) /\ UNCHANGED outsideDb

\* set_default_compression(): throws for a name that is not registered
SetDefaultCompressionCall(name) ==
    /\ Called([NoCall EXCEPT !.op = "set_default_compression",
                             !.ok = name \in db_strategies])
    /\ db_config' = IF name \in db_strategies
                      THEN [db_config EXCEPT !.default_compression = name]
                      ELSE db_config
    /\ UNCHANGED <<db_state, db_strategies, db_entries, db_file, db_export,
                   db_now, db_ghost>>

DbSetDefaultCompression(name) == SetDefaultCompressionCall(name) /\ UNCHANGED outsideDb

\* clear()
DbClear ==
    /\ Called([NoCall EXCEPT !.op = "clear"])
    /\ db_entries' = <<>>
    /\ db_ghost' = [db_ghost EXCEPT !.only_stores = FALSE]
    /\ UNCHANGED <<db_state, db_config, db_strategies, db_file, db_export,
                   db_now>>
    /\ UNCHANGED outsideDb

\* clear_test()
DbClearTest(name) ==
    /\ Called([NoCall EXCEPT !.op = "clear_test", !.name = name])
    /\ db_entries' = SelectSeq(db_entries, LAMBDA e : e.test_name # name)
    /\ db_ghost' = [db_ghost EXCEPT !.only_stores = FALSE]
    /\ UNCHANGED <<db_state, db_config, db_strategies, db_file, db_export,
                   db_now>>
    /\ UNCHANGED outsideDb

\* the orders std::sort may leave a test's entries in: it is not stable
RECURSIVE Reordered(_)
Reordered(entries) ==
    IF entries = <<>> THEN {<<>>}
    ELSE UNION {{<<entries[i]>> \o rest :
                    rest \in Reordered(Without(entries, i))} :
                i \in 1..Len(entries)}

\* vacuum(): std::sort by test name, shrink_to_fit
DbVacuum ==
    /\ Called([NoCall EXCEPT !.op = "vacuum"])
    /\ \E es \in Reordered(QueryByTest(db_entries, NameOrder[1])),
          ps \in Reordered(QueryByTest(db_entries, NameOrder[2])),
          qs \in Reordered(QueryByTest(db_entries, NameOrder[3])) :
         db_entries' = es \o ps \o qs
    /\ db_ghost' = [db_ghost EXCEPT !.only_stores = FALSE]
    /\ UNCHANGED <<db_state, db_config, db_strategies, db_file, db_export,
                   db_now>>
    /\ UNCHANGED outsideDb

\* std::max_element by timestamp: the first of the newest entries
Latest(entries) ==
    CHOOSE i \in 1..Len(entries) :
        /\ \A j \in 1..Len(entries) :
             entries[j].timestamp <= entries[i].timestamp
        /\ \A j \in 1..(i - 1) : entries[j].timestamp # entries[i].timestamp

\* get_latest()
GetLatestCall(name) ==
    /\ LET mine == QueryByTest(db_entries, name) IN
         Called([db_last EXCEPT
                   !.op = "get_latest", !.ok = TRUE,
                   !.entry = IF mine = <<>> THEN Nullopt
                             ELSE Some(mine[Latest(mine)]),
                   !.output = Nullopt, !.file = NoFile,
                   !.chain = IF db_last.chain = 1 /\ db_last.name = name
                               THEN 2 ELSE 0])
    /\ UNCHANGED <<db_state, db_config, db_strategies, db_entries, db_file,
                   db_export, db_now, db_ghost>>

DbGetLatest(name) == GetLatestCall(name) /\ UNCHANGED outsideDb

\* decompress_data(): nullopt for an algorithm that is not registered
DecompressData(compressed, algorithm) ==
    IF algorithm \notin db_strategies THEN Nullopt
    ELSE Decompress(algorithm, compressed)

\* decompress() of the entry get_latest() returned
DecompressCall ==
    /\ db_last.op = "get_latest"
    /\ db_last.entry # Nullopt
    /\ Called([db_last EXCEPT
                 !.op = "decompress",
                 !.output = DecompressData(
                                db_last.entry[1].compressed_data,
                                db_last.entry[1].compression_algorithm),
                 !.chain = IF db_last.chain = 2 THEN 3 ELSE 0])
    /\ UNCHANGED <<db_state, db_config, db_strategies, db_entries, db_file,
                   db_export, db_now, db_ghost>>

DbDecompress == DecompressCall /\ UNCHANGED outsideDb

\* the system clock advances
DbTick ==
    /\ db_now < MaxTime
    /\ db_now' = db_now + 1
    /\ UNCHANGED <<db_state, db_config, db_strategies, db_entries, db_file,
                   db_export, db_ops, db_last, db_ghost>>
    /\ UNCHANGED outsideDb

\* =================================================================
\* The mutexes of CounterexampleDatabase and ResourceMonitor
\* =================================================================
\* the thresholds a caller of set_cpu_threshold / set_memory_threshold passes
Thresholds == {40, 90}

\* the member functions threads call concurrently
DbCalls == {"store", "get_latest", "decompress", "register_compression",
            "set_default_compression"}
MonCalls == {"get_current_metrics", "set_alert_callback",
             "set_cpu_threshold", "set_memory_threshold"}

\* the mutex a function locks on entry (std::lock_guard), "none" for a
\* function that locks nothing
Locks(op) ==
    CASE op \in {"store", "get_latest"} -> "mutex_"
      [] op \in {"get_current_metrics", "sample"} -> "metrics_mutex_"
      [] OTHER -> "none"

\* the members a function reads, and the members it writes
Reads(op) ==
    CASE op = "store" -> {"compression_strategies_", "default_compression"}
      [] op = "get_latest" -> {"entries_"}
      [] op = "decompress" -> {"compression_strategies_"}
      [] op = "set_default_compression" -> {"compression_strategies_"}
      [] op = "get_current_metrics" -> {"current_metrics_"}
      [] op = "check_alerts" -> {"alert_callback_", "alert_thresholds"}
      [] OTHER -> {}

Writes(op) ==
    CASE op = "store" -> {"entries_"}
      [] op = "register_compression" -> {"compression_strategies_"}
      [] op = "set_default_compression" -> {"default_compression"}
      [] op = "sample" -> {"current_metrics_", "history_"}
      [] op = "set_alert_callback" -> {"alert_callback_"}
      [] op \in {"set_cpu_threshold", "set_memory_threshold"}
           -> {"alert_thresholds"}
      [] OTHER -> {}

Accesses(op) == Reads(op) \cup Writes(op)

\* the one mutex of the object a member belongs to
MutexOf(member) ==
    IF member \in {"entries_", "compression_strategies_",
                   "default_compression"}
      THEN "mutex_" ELSE "metrics_mutex_"

\* the thread that holds a mutex
Holder(mutex) == IF mutex = "mutex_" THEN mutex_ ELSE metrics_mutex_

\* two threads are inside functions of which one writes a member the
\* other reads or writes: a data race unless both hold the member's mutex
Conflict(t, u) ==
    \E member \in Accesses(in_call[t].op) \cap Accesses(in_call[u].op) :
        member \in Writes(in_call[t].op) \cup Writes(in_call[u].op)

Racing(t) == \E u \in Threads \ {t} : Conflict(t, u)

\* std::lock_guard's constructor and destructor
Lock(mutex, t) ==
    CASE mutex = "mutex_" ->
           /\ mutex_ = "none"
           /\ mutex_' = t
           /\ UNCHANGED metrics_mutex_
      [] mutex = "metrics_mutex_" ->
           /\ metrics_mutex_ = "none"
           /\ metrics_mutex_' = t
           /\ UNCHANGED mutex_
      [] OTHER -> UNCHANGED <<mutex_, metrics_mutex_>>

Unlock(mutex) ==
    CASE mutex = "mutex_" ->
           /\ mutex_' = "none"
           /\ UNCHANGED metrics_mutex_
      [] mutex = "metrics_mutex_" ->
           /\ metrics_mutex_' = "none"
           /\ UNCHANGED mutex_
      [] OTHER -> UNCHANGED <<mutex_, metrics_mutex_>>

\* a thread enters a member function: it takes the mutex the function
\* locks, and waits while another thread holds it
CallBegin(t, op) ==
    /\ in_call[t] = NoOp
    /\ IF op \in DbCalls THEN db_state = "open" /\ db_ops < MaxDbOps
                          ELSE proc = "alive"
    /\ Lock(Locks(op), t)
    /\ in_call' = [in_call EXCEPT ![t] = [op |-> op, phase |-> "inside"]]
    /\ UNCHANGED <<poolVars, clientVars, runnerVars, monVars, monCfgVars,
                   armVars, others>>

\* what a function of CounterexampleDatabase does between entry and return
DbBody(op) ==
    CASE op = "store" ->
           \E name \in TestNames, data \in DbData :
               StoreCall(name, "prop1", data)
      [] op = "get_latest" -> \E name \in TestNames : GetLatestCall(name)
      [] op = "decompress" ->
           IF db_last.op = "get_latest" /\ db_last.entry # Nullopt
             THEN DecompressCall
             ELSE /\ Called([NoCall EXCEPT !.op = "decompress"])
                  /\ UNCHANGED <<db_state, db_config, db_strategies,
                                 db_entries, db_file, db_export, db_now,
                                 db_ghost>>
      [] op = "register_compression" -> RegisterCompressionCall("zstd")
      [] op = "set_default_compression" ->
           \E name \in {"none", "zstd"} : SetDefaultCompressionCall(name)

\* what a function of ResourceMonitor does between entry and return
MonBody(op) ==
    CASE op = "get_current_metrics" -> UNCHANGED <<monVars, monCfgVars>>
      [] op = "set_alert_callback" ->
           \E installed \in BOOLEAN : SetAlertCallbackCall(installed)
      [] op = "set_cpu_threshold" ->
           \E threshold \in Thresholds : SetCpuThresholdCall(threshold)
      [] op = "set_memory_threshold" ->
           \E threshold \in Thresholds : SetMemoryThresholdCall(threshold)

\* the process of the monitor dies
Died ==
    /\ proc' = "crashed"
    /\ UNCHANGED <<history_size, running_, monitor_thread_, mon_pc,
                   next_thread, history_, current_metrics_, clock,
                   alert_callback_, last_cpu_alert_level_,
                   last_memory_alert_level_, alerts, ctl_pc, ncalls,
                   last_call>>

\* a call on the database runs and returns, releasing what it locked. A
\* call that races with another thread's call has undefined behaviour:
\* it does what it would do alone, or the process dies.
DbCallEnd(t) ==
    /\ in_call[t].phase = "inside"
    /\ in_call[t].op \in DbCalls
    /\ \/ DbBody(in_call[t].op)
       \/ /\ Racing(t)
          /\ db_state' = "crashed"
          /\ UNCHANGED <<db_config, db_strategies, db_entries, db_file,
                         db_export, db_now, db_ops, db_last, db_ghost>>
    /\ Unlock(Locks(in_call[t].op))
    /\ in_call' = [in_call EXCEPT ![t] = NoOp]
    /\ UNCHANGED besideDb

\* likewise a call on the monitor
MonCallEnd(t) ==
    /\ in_call[t].phase = "inside"
    /\ in_call[t].op \in MonCalls
    /\ \/ MonBody(in_call[t].op)
       \/ /\ Racing(t)
          /\ Died
          /\ UNCHANGED monCfgVars
    /\ Unlock(Locks(in_call[t].op))
    /\ in_call' = [in_call EXCEPT ![t] = NoOp]
    /\ UNCHANGED besideMonitors

\* monitor_loop(): the sampler takes metrics_mutex_ to store the sample
SampleBegin(s) ==
    /\ proc = "alive"
    /\ mon_pc[s] = "sample"
    /\ in_call[Sampler] = NoOp
    /\ Lock("metrics_mutex_", Sampler)
    /\ in_call' = [in_call EXCEPT
                     ![Sampler] = [op |-> "sample", phase |-> "inside"]]
    /\ UNCHANGED <<poolVars, clientVars, runnerVars, monVars, monCfgVars,
                   armVars, others>>

\* monitor_loop(): the lock_guard's block ends, check_alerts() is next
SampleUnlock ==
    /\ in_call[Sampler] = [op |-> "sample", phase |-> "inside"]
    /\ Unlock("metrics_mutex_")
    /\ in_call' = [in_call EXCEPT
                     ![Sampler] = [op |-> "check_alerts",
                                   phase |-> "inside"]]
    /\ UNCHANGED <<poolVars, clientVars, runnerVars, monVars, monCfgVars,
                   armVars, others>>

\* monitor_loop(): check_alerts() has run with the callback and the
\* thresholds it read, and the sample is complete
SampleEnd(s, cpu, mem) ==
    /\ in_call[Sampler] = [op |-> "check_alerts", phase |-> "inside"]
    /\ \/ MonitorSampleCall(s, cpu, mem)
       \/ /\ Racing(Sampler)
          /\ Died
    /\ in_call' = [in_call EXCEPT ![Sampler] = NoOp]
    /\ UNCHANGED <<mutex_, metrics_mutex_>>
    /\ UNCHANGED besideMon

\* =================================================================
\* Specifications
\* =================================================================
\* a runner that is constructed without adaptive scheduling and left alone
RunnerIdle ==
    /\ RunnerInit
    /\ adaptive_scheduling = FALSE
    /\ max_concurrent_tests = 0

\* a monitor that is constructed and left alone
MonIdle ==
    /\ MonInit
    /\ history_size = 0
    /\ current_metrics_ = Metrics(50, 50, 0)
    /\ alert_callback_ = FALSE

\* the components no thread of the specification touches
Untouched ==
    /\ LocksInit
    /\ DistInit
    /\ codec = [pc |-> "start", name |-> "none", data |-> <<>>,
                compressed |-> NoCompress(<<>>), output |-> Nullopt]
    /\ DbInit
    /\ db_config = [max_database_size_mb |-> 100, max_entries_per_test |-> 2,
                    auto_cleanup |-> TRUE, retention_period |-> 100,
                    default_compression |-> DefaultCompression]
    /\ db_file = NoFile

\* a manager that is constructed and left alone
ArmIdle ==
    /\ ArmInit
    /\ arm_config = [target_cpu_usage |-> 70, target_memory_usage |-> 60,
                     adjustment_factor |-> 20, min_threads |-> 1,
                     max_threads |-> 4]
    /\ pool_current_size = 1

InitPool == PoolInit /\ ClientInit /\ RunnerIdle /\ MonIdle /\ ArmIdle /\ Untouched

NextPool ==
    \/ ClientEnqueue
    \/ ClientShutdown
    \/ ClientShutdownReturn
    \/ PoolWorkerDequeue
    \/ PoolWorkerFinish
    \/ PoolWorkerExit

SpecPool == InitPool /\ [][NextPool]_vars

\* the thread that calls run_all() in SpecRunner and SpecStop
Driver == "c1"

\* the threads of a runner: add_property callers, the pool workers inside
\* run_test_with_timeout, the test_threads and monitor_resources
RunnerThreads(names, outcomes) ==
    \/ \E n \in names : AddProperty(n)
    \/ \E w \in Workers : RunTestStart(w)
    \/ \E w \in Workers : RunTestReady(w)
    \/ \E w \in Workers : RunTestTimeout(w)
    \/ \E w \in Workers : RunTestReturn(w)
    \/ \E t \in Tests : AuxPass(t)
    \/ \E t \in Tests, o \in outcomes : AuxFail(t, o)
    \/ \E t \in Tests : AuxSetException(t)

RunAllSteps(c) ==
    \/ RunAllBegin(c)
    \/ RunAllPop(c)
    \/ RunAllSubmit(c)
    \/ RunAllCollect(c)
    \/ RunAllReturn(c)

RunAllAdmission(c) ==
    \/ RunAllAdmitConcurrency(c)
    \/ RunAllAdmitResources(c)

\* one thread calls run_all() on a runner that is not stopped
NextRunner ==
    \/ RunnerThreads(Names, Outcomes)
    \/ RunAllSteps(Driver)
    \/ RunAllAdmission(Driver)
    \/ \E cpu \in Levels, mem \in Levels : RunnerMonitorSample(cpu, mem)

InitRunner == PoolInit /\ ClientInit /\ RunnerInit /\ MonIdle /\ ArmIdle /\ Untouched

SpecRunner == InitRunner /\ [][NextRunner]_vars

\* one thread calls run_all(); the tests are those of SpecRunAll, and the
\* memory readings stay low.  Every thread that can take a step gets to
\* take it: the caller of run_all() and its polling loops, the workers
\* (a wait_for() returns at the latest when the timeout elapses), and
\* monitor_resources(), which samples a low CPU usage again and again.  A
\* check need not ever end.  The resource loop polls every 100 ms and a
\* sample stays for 500 ms, so a low reading that comes back again and
\* again is seen.
NextLive ==
    \/ RunnerThreads({"p"}, {"std"})
    \/ RunAllSteps(Driver)
    \/ RunAllAdmission(Driver)
    \/ \E cpu \in Levels : RunnerMonitorSample(cpu, 50)

Fairness ==
    /\ WF_vars(RunAllSteps(Driver))
    /\ WF_vars(RunAllAdmitConcurrency(Driver))
    /\ SF_vars(RunAllAdmitResources(Driver))
    /\ WF_vars(RunnerMonitorSample(50, 50))
    /\ \A w \in Workers :
         /\ WF_vars(RunTestStart(w))
         /\ WF_vars(RunTestReady(w) \/ RunTestTimeout(w) \/ RunTestReturn(w))

SpecLive == InitRunner /\ [][NextLive]_vars /\ Fairness

\* a runner that is stopped before anyone calls run_all(): add_property()
\* calls, monitor_resources() until stop() ends it, the workers leaving,
\* stop(), and after it has returned one thread that calls run_all().
\* Every thread that can take a step gets to take it.
RunAllBeginStopped(c) ==
    /\ sd_done >= 1
    /\ st_pc = "idle"
    /\ RunAllBegin(c)

NextStopped ==
    \/ AddProperty("p")
    \/ \E cpu \in Levels, mem \in Levels : RunnerMonitorSample(cpu, mem)
    \/ RunnerMonitorExit
    \/ \E w \in Workers : RunnerWorkerExit(w)
    \/ RunnerStopBegin
    \/ RunnerStopJoinMonitor
    \/ RunnerStopReturn
    \/ RunAllBeginStopped(Driver)
    \/ RunAllPop(Driver)
    \/ RunAllAdmission(Driver)
    \/ RunAllSubmit(Driver)
    \/ RunAllReturn(Driver)

FairnessStopped ==
    /\ WF_vars(RunAllPop(Driver) \/ RunAllSubmit(Driver)
                 \/ RunAllReturn(Driver))
    /\ WF_vars(RunAllAdmitConcurrency(Driver))
    /\ SF_vars(RunAllAdmitResources(Driver))
    /\ WF_vars(RunnerMonitorExit)
    /\ WF_vars(RunnerStopJoinMonitor)
    /\ WF_vars(RunnerStopReturn)
    /\ \A w \in Workers : WF_vars(RunnerWorkerExit(w))

SpecStopped == InitRunner /\ [][NextStopped]_vars /\ FairnessStopped

\* two threads call run_all() on a runner without adaptive scheduling; the
\* tests have one name, and their checks pass, throw std::exception or
\* run into the timeout
InitRunAll == InitPool

NextRunAll ==
    \/ RunnerThreads({"p"}, {"std"})
    \/ \E c \in Callers : RunAllSteps(c)

SpecRunAll == InitRunAll /\ [][NextRunAll]_vars

\* one thread calls run_all() and one calls stop(), twice at most; the
\* tests are those of SpecRunAll
NextStop ==
    \/ RunnerThreads({"p"}, {"std"})
    \/ RunAllSteps(Driver)
    \/ RunAllAdmission(Driver)
    \/ \E cpu \in Levels, mem \in Levels : RunnerMonitorSample(cpu, mem)
    \/ RunnerMonitorExit
    \/ \E w \in Workers : RunnerWorkerExit(w)
    \/ RunnerStopBegin
    \/ RunnerStopJoinMonitor
    \/ RunnerStopReturn

SpecStop == InitRunner /\ [][NextStop]_vars

\* the thread that calls start() and stop() in SpecMon
Main == "t1"

\* a ResourceMonitor, its sampler threads, and one thread that calls
\* start() and stop() in any order
InitMon == PoolInit /\ ClientInit /\ RunnerIdle /\ MonInit /\ ArmIdle /\ Untouched

NextMon ==
    \/ MonStart(Main)
    \/ MonStop(Main)
    \/ MonStopJoin(Main)
    \/ \E s \in Samplers : MonitorLoopCheck(s)
    \/ \E s \in Samplers, cpu \in Levels, mem \in Levels :
         MonitorSample(s, cpu, mem)

SpecMon == InitMon /\ [][NextMon]_vars

\* a ResourceMonitor, its sampler threads, and two threads that call
\* start() and stop() in any order; start() is taken as one step (the
\* exchange and the assignment of monitor_thread_), stop() as the exchange
\* and the join
InitMonRace ==
    /\ InitMon
    /\ history_size = MaxHistory
    /\ current_metrics_ = Metrics(50, 50, 0)
    /\ ~alert_callback_

NextMonRace ==
    \/ \E c \in Controllers : MonStart(c)
    \/ \E c \in Controllers : MonStop(c)
    \/ \E c \in Controllers : MonStopJoin(c)
    \/ \E s \in Samplers : MonitorLoopCheck(s)
    \/ \E s \in Samplers, cpu \in Levels : MonitorSample(s, cpu, 50)

SpecMonRace == InitMonRace /\ [][NextMonRace]_vars


\* a started ResourceMonitor with room in its history, its sampler, and a
\* thread that installs or removes the alert callback and moves the
\* thresholds between samples
InitAlert ==
    /\ InitMon
    /\ history_size = MaxHistory
    /\ current_metrics_ = Metrics(50, 50, 0)

NextAlert ==
    \/ MonStart(Main)
    \/ \E s \in Samplers : MonitorLoopCheck(s)
    \/ \E s \in Samplers, cpu \in Levels, mem \in Levels :
         MonitorSample(s, cpu, mem)
    \/ \E installed \in BOOLEAN : SetAlertCallback(installed)
    \/ \E threshold \in Thresholds : SetCpuThreshold(threshold)
    \/ \E threshold \in Thresholds : SetMemoryThreshold(threshold)

SpecAlert == InitAlert /\ [][NextAlert]_vars

\* the usage readings the manager gets from get_current_metrics()
Usages == {10, 50, 60, 63, 70, 100}

\* an AdaptiveResourceManager whose management loop adjusts one pool, any
\* configuration, and a pool that also changes size on its own
InitArm == PoolInit /\ ClientInit /\ RunnerIdle /\ MonIdle /\ ArmInit /\ Untouched

NextArm ==
    \/ \E cpu \in Usages, mem \in Usages : AdjustThreadPools(cpu, mem)
    \/ \E n \in PoolSizes : PoolResized(n)

SpecArm == InitArm /\ [][NextArm]_vars

\* the size_t arguments callers pass to the manual overrides
Amounts == {0, 1, 2, SizeMax}

\* an AdaptiveResourceManager with one registered pool, threads that call
\* scale_up, scale_down and set_all_pools, and a pool that also changes
\* size on its own
NextManual ==
    \/ \E name \in PoolNames, n \in Amounts : ManualScaleUp(name, n)
    \/ \E name \in PoolNames, n \in Amounts : ManualScaleDown(name, n)
    \/ \E n \in PoolSizes \cup {SizeMax} : SetAllPools(n)
    \/ \E n \in PoolSizes : PoolResized(n)

SpecManual == InitArm /\ [][NextManual]_vars

\* a TestDistributor from its construction on: two threads that call
\* add_property(), one that calls run_all(), and the runners
InitDist == InitPool

NextDist ==
    \/ \E n \in 0..MaxRunners, strategy \in BuiltInStrategies :
         DistConstruct(n, strategy)
    \/ \E a \in Adders : DistSelect(a, 0)
    \/ \E a \in Adders : DistPush(a)
    \/ DistRunAllBegin
    \/ \E i \in RunnerIds : DistRunnerRunOne(i)
    \/ \E i \in RunnerIds : DistRunnerFinish(i)
    \/ DistCollect
    \/ DistReturn

SpecDist == InitDist /\ [][NextDist]_vars

\* a TestDistributor with any strategy, with or without a selector of the
\* caller, and two threads that call add_property()
NextSelect ==
    \/ \E n \in 0..MaxRunners, strategy \in DistributionStrategy :
         DistConstruct(n, strategy)
    \/ \E a \in Adders, r \in SelectorReturns : DistSelect(a, r)
    \/ \E a \in Adders : DistPush(a)

SpecSelect == InitDist /\ [][NextSelect]_vars

\* every compression strategy applied to every byte string: compress(),
\* then decompress() of what it returned
InitCodec ==
    /\ PoolInit /\ ClientInit /\ RunnerIdle /\ MonIdle /\ ArmIdle /\ DistInit
    /\ LocksInit
    /\ CodecInit
    /\ DbInit
    /\ db_config = [max_database_size_mb |-> 100, max_entries_per_test |-> 2,
                    auto_cleanup |-> TRUE, retention_period |-> 100,
                    default_compression |-> DefaultCompression]
    /\ db_file = NoFile

NextCodec == CodecCompress \/ CodecDecompress

SpecCodec == InitCodec /\ [][NextCodec]_vars

\* a CounterexampleDatabase from its construction on, with any Config and
\* with or without a file at database_path, and one thread that calls it
InitDb ==
    /\ PoolInit /\ ClientInit /\ RunnerIdle /\ MonIdle /\ ArmIdle /\ DistInit
    /\ LocksInit
    /\ codec = [pc |-> "start", name |-> "none", data |-> <<>>,
                compressed |-> NoCompress(<<>>), output |-> Nullopt]
    /\ DbInit

NextDb ==
    \/ DbConstruct
    \/ \E name \in TestNames, data \in DbData : DbStore(name, "prop1", data)
    \/ \E file \in {NoFile, SavedFile, ForeignFile} : DbImport(file)
    \/ DbClear
    \/ \E name \in TestNames : DbClearTest(name)
    \/ DbVacuum
    \/ \E name \in TestNames : DbGetLatest(name)
    \/ DbDecompress
    \/ DbTick

SpecDb == InitDb /\ [][NextDb]_vars

\* threads that share one object and call its member functions at the
\* same time: two threads and a CounterexampleDatabase, or one thread, a
\* started ResourceMonitor and its sampler. The two classes have no state
\* in common, so a run shares one of them.
InitLocks ==
    /\ PoolInit /\ ClientInit /\ RunnerIdle /\ MonInit /\ ArmIdle /\ DistInit
    /\ LocksInit
    /\ history_size = MaxHistory
    /\ current_metrics_ = Metrics(50, 50, 0)
    /\ codec = [pc |-> "start", name |-> "none", data |-> <<>>,
                compressed |-> NoCompress(<<>>), output |-> Nullopt]
    /\ DbInit
    /\ db_config.max_database_size_mb = 100
    /\ db_config.max_entries_per_test = 2
    /\ db_config.retention_period = 100
    /\ db_file = NoFile

NextLocks ==
    \/ ~running_ /\ DbConstruct
    \/ db_state = "none" /\ MonStart(Main)
    \/ \E s \in Samplers : in_call[Sampler] = NoOp /\ MonitorLoopCheck(s)
    \/ \E t \in Controllers, op \in DbCalls : CallBegin(t, op)
    \/ \E op \in MonCalls : db_state = "none" /\ CallBegin(Main, op)
    \/ \E t \in Controllers : DbCallEnd(t)
    \/ \E t \in Controllers : MonCallEnd(t)
    \/ \E s \in Samplers : SampleBegin(s)
    \/ SampleUnlock
    \/ \E s \in Samplers, cpu \in Levels : SampleEnd(s, cpu, 50)

SpecLocks == InitLocks /\ [][NextLocks]_vars

\* CounterexampleDatabase objects made one after the other on one
\* database_path, with the limits out of the way, and the files they
\* write and read
InitFiles ==
    /\ InitDb
    /\ db_config.max_database_size_mb = 100
    /\ db_config.max_entries_per_test = 2
    /\ db_config.retention_period = 100

NextFiles ==
    \/ DbConstruct
    \/ DbDestroy
    \/ \E property \in PropertyNames,
          data \in {<<<<"a", Wide(0, 1)>>>>, HugeData} :
         DbStore("p", property, data)
    \/ \E path \in Paths : DbExport(path)
    \/ \E file \in Files \cup {db_export} : DbImport(file)
    \/ DbRegisterCompression("zstd")
    \/ \E name \in {"none", "zstd"} : DbSetDefaultCompression(name)
    \/ DbGetLatest("p")
    \/ DbDecompress

SpecFiles == InitFiles /\ [][NextFiles]_vars


\* =================================================================
\* Properties of the ThreadPool (SpecPool)
\* =================================================================

\* C2: in every reachable state of a pool with W workers active_workers()
\* is at most W (and never negative): at most W tasks execute at once,
\* whatever the interleaving of enqueue, task start, task end and shutdown.
C2_ActiveWorkersBounded ==
    /\ active_workers_ \in 0..NumThreads
    /\ Cardinality({w \in Workers : worker_task[w] # 0}) = active_workers_

\* C2 witness: every worker is busy and more work is queued
C2_AllWorkersBusy ==
    /\ active_workers_ = NumThreads
    /\ tasks_ # <<>>

\* C3: once shutdown() has set the stop flag, the flag stays set, the queue
\* never grows, and every enqueue() that returns reports the runtime error.
C3_EnqueueAfterShutdownFails ==
    [][stop_ =>
         /\ stop_'
         /\ Len(tasks_') <= Len(tasks_)
         /\ \A t \in PoolTasks :
              (enq_result[t] = "none" /\ enq_result'[t] # "none")
                  => (enq_result'[t] = "runtime_error" /\ tasks_' = tasks_)]_vars

\* C3 witness: an enqueue() was rejected after an earlier one was accepted
C3_RejectedEnqueue ==
    /\ stop_
    /\ \E t, u \in PoolTasks :
         enq_result[t] = "ok" /\ enq_result[u] = "runtime_error"

\* C4 as claimed: no task is dequeued after shutdown() has set the stop flag
C4_PendingNeverRun == late_dequeues = 0

\* C4 as amended: the workers drain the queue before they leave: a worker
\* has left only if the pool is stopped and the queue is empty, and when
\* shutdown() has returned no task is queued or running.
C4_QueueDrainedBeforeExit ==
    /\ (\E w \in Workers : worker_pc[w] = "exited")
           => (stop_ /\ tasks_ = <<>>)
    /\ sd_done >= 1
           => (tasks_ = <<>> /\ \A w \in Workers : worker_task[w] = 0)

\* C4 witness: shutdown() has returned and tasks that were queued when the
\* stop flag was set have been run after it
C4_DrainedAfterStop ==
    /\ sd_done >= 1
    /\ late_dequeues >= 2

\* C5: once a shutdown() call has returned, a later call changes nothing:
\* the stop flag stays set, every worker stays joined, the queue and the
\* workers are as they were, and the call does not fail.
C5_ShutdownIdempotent ==
    [][sd_done >= 1 =>
         /\ stop_ /\ stop_'
         /\ joined = Workers /\ joined' = joined
         /\ tasks_' = tasks_
         /\ worker_pc' = worker_pc
         /\ active_workers_' = active_workers_
         /\ sd_pc' # "threw"]_vars

\* C5 witness: a second shutdown() call has returned
C5_SecondShutdownReturned ==
    /\ sd_done >= 2
    /\ sd_pc = "idle"


\* =================================================================
\* Properties of the ParallelTestRunner (SpecRunner, SpecRunAll)
\* =================================================================

\* the tasks add_property has created so far
Added == 1..(next_test - 1)

\* number of results of a list that carry the name n
CountResults(rs, n) ==
    Cardinality({i \in 1..Len(rs) : rs[i].test_name = n})

\* number of submitted tasks that carry the name n
CountTasks(n) == Cardinality({t \in Added : task_name[t] = n})

\* run_all() of caller c was entered after every add_property call made so
\* far, and has returned
ReturnedForAll(c) ==
    /\ ra_pc[c] = "done"
    /\ ra_entry[c] = next_test - 1

\* C1: when run_all() returns for N tasks that were all added before it was
\* called, it returns exactly N results and, name by name, as many results
\* as tasks: the multiset of result names is the multiset of submitted
\* names, whether the tasks pass, fail or time out.
C1_OneResultPerTask ==
    ReturnedForAll(Driver) =>
        /\ Len(ra_results[Driver]) = next_test - 1
        /\ \A n \in Names : CountResults(ra_results[Driver], n) = CountTasks(n)

\* C1 witness: run_all() has returned for two tasks of the same name, one
\* timed out and one failed in time
C1_ReturnedTwoSameName ==
    /\ ReturnedForAll(Driver)
    /\ next_test - 1 >= 2
    /\ task_name[1] = task_name[2]
    /\ \E i, j \in 1..Len(ra_results[Driver]) :
         /\ ra_results[Driver][i].error_message = TimeoutMessage
         /\ ~ra_results[Driver][j].success
         /\ ra_results[Driver][j].error_message # TimeoutMessage

\* C6 as claimed: a task whose wait timed out gets the result success =
\* false with the message "Test timeout exceeded", and its test_thread is
\* detached and never joined.
C6_TimeoutReported ==
    \A t \in detached :
        /\ aux_pc[t] # "joined"
        /\ future[t] # <<>> =>
             /\ IsValue(future[t][1])
             /\ ~future[t][1].success
             /\ future[t][1].error_message = TimeoutMessage

\* C7: a check that throws (property failure, other exception, unknown
\* error) gives its task a result with success = false; nothing thrown by a
\* check leaves run_all() or replaces a result, and when run_all() returns
\* every task it took has its result.
C7_FailureBecomesResult ==
    /\ \A t \in Tests :
         (thrown[t] # "none" /\ future[t] # <<>>) =>
             (IsValue(future[t][1]) /\ ~future[t][1].success)
    /\ ra_pc[Driver] # "threw"
    /\ ra_pc[Driver] = "done" =>
         Len(ra_results[Driver]) = Cardinality({t \in Tests : popped[t] > 0})

\* C7 witness: run_all() has returned the result of a check that threw in
\* time and the result of a check that passed
C7_FailedAndPassed ==
    /\ ra_pc[Driver] = "done"
    /\ \E t, u \in Tests :
         /\ thrown[t] # "none" /\ t \notin detached
         /\ future[t] # <<>> /\ future[t][1].error_message = ErrorMessageOf(thrown[t])
         /\ thrown[u] = "none" /\ u \notin detached
         /\ future[u] # <<>> /\ future[u][1].success

\* C8: every TestTask leaves the pending queue at most once, its check is
\* started at most once and only after it left the queue, and its outcome is
\* taken by one run_all() at most once; when every run_all() has returned
\* and nothing is pending, each of these happened exactly once per task.
C8_ConsumedExactlyOnce ==
    /\ \A t \in Tests :
         /\ popped[t] <= 1
         /\ started[t] <= popped[t]
         /\ collected[t] <= started[t]
         /\ t \notin Added => popped[t] = 0
    /\ (pending_tasks_ = <<>> /\ \A c \in Callers : ra_pc[c] = "done") =>
         \A t \in Added :
             popped[t] = 1 /\ started[t] = 1 /\ collected[t] = 1

\* C8 witness: two concurrent run_all() calls have returned, each with one
\* of the tasks, one of which timed out
C8_TwoCallsShared ==
    /\ \A c \in Callers : ra_pc[c] = "done" /\ Len(ra_results[c]) = 1
    /\ pending_tasks_ = <<>>
    /\ detached # {}


\* =================================================================
\* Properties of the ResourceMonitor (SpecMon)
\* =================================================================

\* C9 as claimed: the history never holds more than history_size samples,
\* for any configured history_size
C9_HistoryBounded == Len(history_) <= history_size

\* the sampler threads that are inside monitor_loop()
LiveSamplers == {s \in Samplers : mon_pc[s] \in {"loop", "sample"}}

\* the step is a start() (a stop()) call
StartStep == ncalls' # ncalls /\ last_call' \in {"start", "start_noop"}
StopStep == ncalls' # ncalls /\ last_call' \in {"stop", "stop_noop", "stopping"}

samplerState == <<monitor_thread_, mon_pc, next_thread, history_,
                  current_metrics_>>

\* C10: start() and stop() drive a two-state machine.  There is never more
\* than one sampler thread and start() never ends the process; a monitor
\* that is stopped (stop() has returned, or never started) has no thread
\* left and a running one has exactly its sampler; start() while running and
\* stop() while stopped change nothing; while the monitor is stopped the
\* current metrics and the history do not change.
C10_StartStopStateMachine ==
    /\ [](/\ Cardinality(LiveSamplers) <= 1
          /\ proc # "terminated"
          /\ (~running_ /\ ctl_pc[Main] = "idle") =>
                 (monitor_thread_ = 0 /\
                  \A s \in Samplers : mon_pc[s] \in {"none", "joined"})
          /\ (running_ /\ proc = "alive") =>
                 (monitor_thread_ # 0 /\ LiveSamplers = {monitor_thread_}))
    /\ [][/\ (StartStep /\ running_) =>
                 (last_call' = "start_noop" /\ running_' /\
                  UNCHANGED samplerState)
          /\ (StopStep /\ ~running_) =>
                 (last_call' = "stop_noop" /\ ~running_' /\
                  UNCHANGED samplerState)
          /\ (~running_ /\ ctl_pc[Main] = "idle") =>
                 UNCHANGED <<history_, current_metrics_>>]_vars

\* C10 witness: the first sampler was stopped and joined, a second start()
\* brought up a second sampler, which is about to sample, and a further
\* start() found the monitor running
C10_RestartedAndSampling ==
    /\ mon_pc[1] = "joined"
    /\ mon_pc[2] = "sample"
    /\ history_ # <<>>
    /\ last_call = "start_noop"


\* =================================================================
\* Properties of the alerts (SpecAlert)
\* =================================================================

\* the callback invocations of the step, by resource
NewAlerts(kind) == {a \in alerts' \ alerts : a[1] = kind}

\* C11 as claimed: the callback is invoked for a resource only by a sample
\* that is above that resource's threshold in force while the sample before
\* it (if there is one) was at or below it, whatever set_alert_callback and
\* set_cpu_threshold / set_memory_threshold calls came between the samples.
C11_EdgeTriggered ==
    [][/\ NewAlerts("cpu") # {} =>
            /\ current_metrics_'.cpu_usage_percent > alert_thresholds.cpu
            /\ clock > 0 =>
                 current_metrics_.cpu_usage_percent <= alert_thresholds.cpu
       /\ NewAlerts("memory") # {} =>
            /\ current_metrics_'.memory_usage_percent > alert_thresholds.memory
            /\ clock > 0 =>
                 current_metrics_.memory_usage_percent
                     <= alert_thresholds.memory]_vars


\* =================================================================
\* Properties of the AdaptiveResourceManager (SpecArm)
\* =================================================================

InBounds(n) == arm_config.min_threads <= n /\ n <= arm_config.max_threads

\* the constraint ratio of the last adjustment lies in [0.9, 1.1]
LastInDeadBand ==
    LET r == ConstraintRatio(arm_last.cpu, arm_last.mem) IN
      ~Overused(r) /\ ~Underused(r)

C14_NoEmptyDistributor ==
    /\ td_state = "constructed" => td_size >= 1
    /\ td_state = "threw" => td_size = 0

\* C14 witness: the constructor was given no runner and threw
C14_ConstructorThrew == td_state = "threw"

\* no add_property() call is between its two steps and no runner is
\* draining its queue
DistQuiet ==
    /\ \A a \in Adders : td_adders[a] = NotAdding
    /\ \A i \in Runners : td_runner_pc[i] # "running"

\* C15: under LOAD_BALANCED, as long as tasks were added one at a time and
\* never while a runner was draining its queue, every task went to the
\* lowest-index runner with the fewest pending tests: a runner never has
\* fewer pending tests than a runner after it, and never over one more.
C15_LoadBalanced ==
    (td_state = "constructed" /\ strategy_.type = "LOAD_BALANCED"
        /\ ~td_overlap /\ DistQuiet) =>
        \A i, j \in Runners :
            i < j => /\ Len(td_pending[j]) <= Len(td_pending[i])
                     /\ Len(td_pending[i]) <= Len(td_pending[j]) + 1

\* C15 witness: four tasks added one at a time over three runners
C15_FourOverThree ==
    /\ strategy_.type = "LOAD_BALANCED"
    /\ td_size = 3
    /\ ~td_overlap
    /\ DistQuiet
    /\ Len(td_pending[0]) = 2
    /\ Len(td_pending[1]) = 1
    /\ Len(td_pending[2]) = 1

RECURSIVE TotalLen(_)
TotalLen(lists) ==
    IF lists = <<>> THEN 0 ELSE Len(Head(lists)) + TotalLen(Tail(lists))

\* the tasks with a result in the lists run_all() returns
Returned ==
    {t \in DistTasks :
        \E k \in 1..Len(td_all_results) :
            \E n \in 1..Len(td_all_results[k]) : td_all_results[k][n] = t}

\* the tasks whose add_property() has completed
Placed == {t \in DistTasks : td_assigned[t] # -1}

\* C16: when run_all() has returned, there is one list per runner, the
\* i-th being what runner i's run_all() returned and holding only tasks
\* placed on runner i, every runner's call has finished, no task has two
\* results, and every task that was pending at the call has a result; if
\* no task was added since the call began, the number of results is the
\* number of tasks added.
C16_OneListPerRunner ==
    td_pc = "returned" =>
        /\ Len(td_all_results) = td_size
        /\ \A i \in Runners :
             /\ td_runner_pc[i] = "done"
             /\ td_all_results[i + 1] = td_runner_results[i]
             /\ \A n \in 1..Len(td_all_results[i + 1]) :
                  td_assigned[td_all_results[i + 1][n]] = i
        /\ TotalLen(td_all_results) = Cardinality(Returned)
        /\ td_entry \subseteq Returned
        /\ Returned \subseteq Placed
        /\ (td_runs = 1 /\ Placed = td_entry /\ DistQuiet) =>
             TotalLen(td_all_results) = td_next - 1

\* C16 witness: the first run_all() returned three lists that hold four
\* results, of tasks that were all added before the call
C16_ThreeListsFourResults ==
    /\ td_pc = "returned"
    /\ td_runs = 1
    /\ td_size = 3
    /\ Placed = td_entry
    /\ DistQuiet
    /\ TotalLen(td_all_results) = 4
    /\ td_all_results[2] # <<>>


\* =================================================================
\* Properties of the compression strategies (SpecCodec)
\* =================================================================

\* C19 as claimed: for every strategy and every byte string s, compress(s)
\* returns and decompress(compress(s)) returns s.
C19_RoundTrip ==
    /\ codec.pc # "threw"
    /\ codec.pc = "decompressed" => codec.output = Some(codec.data)

\* -----------------------------------------------------------------
\* CounterexampleDatabase: what store() keeps
\* -----------------------------------------------------------------
\* the store() calls made for a test, oldest first
StoredFor(name) ==
    SelectSeq([i \in 1..Len(db_ghost.names) |-> i],
              LAMBDA i : db_ghost.names[i] = name)

\* the store() calls whose entries the database holds for a test, in the
\* order of impl_->entries
KeptFor(name) ==
    LET mine == QueryByTest(db_entries, name)
    IN [i \in 1..Len(mine) |-> mine[i].id]

\* the last k elements of s, all of s if it has fewer
LastOf(s, k) ==
    SubSeq(s, Len(s) - (IF k < Len(s) THEN k ELSE Len(s)) + 1, Len(s))

\* only store() has been called, with auto_cleanup on
OnlyStored ==
    db_state = "open" /\ db_config.auto_cleanup /\ db_ghost.only_stores

\* C17 as it is written: with auto_cleanup on, once more than
\* max_entries_per_test entries have been stored for a test, the
\* database holds exactly max_entries_per_test entries of that test, and
\* they are the most recently stored ones.
C17_KeepsMostRecent ==
    OnlyStored =>
        \A name \in TestNames :
            Len(StoredFor(name)) > db_config.max_entries_per_test =>
                KeptFor(name) = LastOf(StoredFor(name),
                                       db_config.max_entries_per_test)

\* C17, amended: the same, as long as neither the retention period nor the
\* total size limit has removed an entry (the clock never goes back).
\* Entries with one timestamp included: of those the earliest stored goes.
C17_KeepsMostRecentOfLimited ==
    (OnlyStored /\ ~db_ghost.other_rules) =>
        \A name \in TestNames :
            KeptFor(name) = LastOf(StoredFor(name),
                                   db_config.max_entries_per_test)

\* three entries stored for "p" at one instant with a limit of two: the
\* first one is gone
C17_ThreeStoredTwoKept ==
    /\ OnlyStored /\ ~db_ghost.other_rules
    /\ db_config.max_entries_per_test = 2
    /\ db_last.op = "store"
    /\ db_now = 0
    /\ StoredFor("p") = <<1, 2, 3>>
    /\ KeptFor("p") = <<2, 3>>

\* -----------------------------------------------------------------
\* CounterexampleDatabase: the limits
\* -----------------------------------------------------------------
\* C18: whatever has been called, every test has at most
\* max_entries_per_test entries and the compressed sizes add up to at most
\* max_database_size_mb megabytes.
C18_LimitsHold ==
    db_state = "open" =>
        /\ \A name \in TestNames :
             Len(QueryByTest(db_entries, name))
                 <= db_config.max_entries_per_test
        /\ ~OverLimit(db_entries)

\* -----------------------------------------------------------------
\* CounterexampleDatabase: the default Config
\* -----------------------------------------------------------------
\* C20: with default_compression left at its default, store() succeeds,
\* get_latest() of the same test then returns an entry, and decompress()
\* of that entry returns the stored data.
C20_DefaultConfigStores ==
    db_config.default_compression = DefaultCompression =>
        /\ db_last.op = "store" => db_last.ok
        /\ db_last.chain = 2 => db_last.entry # Nullopt
        /\ db_last.chain = 3 => db_last.output = Some(db_last.data)

\* -----------------------------------------------------------------
\* CounterexampleDatabase: export and import
\* -----------------------------------------------------------------
Tuples(entries) ==
    [i \in 1..Len(entries) |->
        <<entries[i].test_name, entries[i].property_name,
          entries[i].compressed_data, entries[i].compression_algorithm>>]

\* an import_from_file() call has just returned or thrown
ImportStep == db_last'.op = "import" /\ db_ops' = db_ops + 1

\* C21: import_from_file of the file export_to_file wrote, into an empty
\* database, succeeds and gives the entries that were exported: as many,
\* in the same order, with the same test name, property name, compressed
\* data and compression algorithm.
C21_ExportImportRoundTrip ==
    [][(/\ ImportStep
        /\ db_entries = <<>>
        /\ db_export.exists
        /\ db_last'.file = db_export)
          => /\ db_last'.ok
             /\ Tuples(db_entries') = Tuples(db_ghost.exported)]_vars

\* a file that export_to_file did not write, or only part of one
Corrupt(file) ==
    file.exists /\ (file.magic # "PBTC" \/ file.version # 1
                      \/ file.cut # "none")

\* C22: import_from_file of a file with another magic, with a version
\* other than 1, or cut short in the header or inside an entry, throws
\* and leaves the entries as they were.
C22_CorruptImportRejected ==
    [][(ImportStep /\ Corrupt(db_last'.file))
          => (~db_last'.ok /\ db_entries' = db_entries)]_vars

\* -----------------------------------------------------------------
\* CounterexampleDatabase: algorithms that are not registered
\* -----------------------------------------------------------------
\* C23: store() with a default compression that is not registered throws
\* and leaves the entries as they were; decompress() of an entry whose
\* algorithm is not registered returns an empty optional.
C23_UnknownAlgorithm ==
    [][/\ (/\ db_last'.op = "store"
           /\ db_ops' = db_ops + 1
           /\ db_config.default_compression \notin db_strategies)
             => (~db_last'.ok /\ db_entries' = db_entries)
       /\ (/\ db_last'.op = "decompress"
           /\ db_ops' = db_ops + 1
           /\ db_last.entry[1].compression_algorithm \notin db_strategies)
             => db_last'.output = Nullopt]_vars

\* a store() has thrown, the entries loaded from the file are still there,
\* and decompress() of the one written with "zstd" has returned nullopt
C23_RejectedAndUnreadable ==
    /\ db_ghost.rejected
    /\ db_config.default_compression \notin db_strategies
    /\ db_entries # <<>>
    /\ db_last.op = "decompress"
    /\ db_last.entry[1].compression_algorithm \notin db_strategies
    /\ db_last.output = Nullopt

\* -----------------------------------------------------------------
\* CounterexampleDatabase: from one run to the next
\* -----------------------------------------------------------------
\* C24: an entry that store() added and that the database held when it
\* was destroyed is in the database constructed next on the same
\* database_path, with its test name, property name and data.
C24_PersistsAcrossRuns ==
    (db_state = "open" /\ db_last.op = "construct") =>
        \A i \in 1..Len(db_ghost.left) :
            db_ghost.left[i].id > 0 =>
                \E j \in 1..Len(db_entries) :
                    /\ db_entries[j].test_name = db_ghost.left[i].test_name
                    /\ db_entries[j].property_name
                         = db_ghost.left[i].property_name
                    /\ db_entries[j].compressed_data
                         = db_ghost.left[i].compressed_data

\* -----------------------------------------------------------------
\* ParallelTestRunner: the objects a test_thread refers to
\* -----------------------------------------------------------------
\* the run_test_with_timeout() call that started the test_thread of task t
\* has not returned
CallActive(t) ==
    worker_task[aux_frame[t]] = t /\ InCall(aux_frame[t])

\* C25: a test_thread ends its check, and with it writes `result` or the
\* promise through the references it captured, only while the
\* run_test_with_timeout() call that owns them has not returned.
C25_NoWriteAfterReturn ==
    [][\A t \in Tests :
         (aux_pc[t] \in {"running", "caught"} /\ aux_pc'[t] # aux_pc[t])
            => CallActive(t)]_vars

\* -----------------------------------------------------------------
\* ParallelTestRunner: admission
\* -----------------------------------------------------------------
\* the workers that are inside run_test_with_timeout()
RunningTests == {w \in Workers : InCall(w)}

\* C26: with adaptive_scheduling and max_concurrent_tests = C > 0, at most
\* C tests run at a time on the pool; with C = 0 the worker count is the
\* only bound.
C26_ConcurrencyCapped ==
    /\ Cardinality(RunningTests) <= NumThreads
    /\ (adaptive_scheduling /\ max_concurrent_tests > 0) =>
           Cardinality(RunningTests) <= max_concurrent_tests

\* C27: with adaptive_scheduling, run_all() gets to the enqueue() of a
\* task it has popped only by reading, after the pop, a CPU and a memory
\* usage that are both at or below the thresholds; without
\* adaptive_scheduling it goes from the pop to the enqueue() directly.
C27_AdmittedBelowThresholds ==
    [][\A c \in Callers :
         /\ (ra_pc[c] # "submit" /\ ra_pc'[c] = "submit") =>
              /\ ra_task'[c] # 0
              /\ IF adaptive_scheduling
                   THEN /\ ra_pc[c] = "admit_res"
                        /\ ra_task[c] = ra_task'[c]
                        /\ current_cpu_usage_ <= cpu_threshold
                        /\ current_memory_usage_ <= memory_threshold
                   ELSE ra_pc[c] = "pop"
         /\ ~adaptive_scheduling =>
              ra_pc'[c] \notin {"admit_conc", "admit_res"}]_vars

\* the second task has been admitted on readings the monitor sampled
C27_SecondTaskAdmitted ==
    /\ adaptive_scheduling
    /\ ra_pc[Driver] = "submit"
    /\ ra_task[Driver] = 2
    /\ current_cpu_usage_ = 50
    /\ current_memory_usage_ = 50

\* -----------------------------------------------------------------
\* ParallelTestRunner: run_all() returns
\* -----------------------------------------------------------------
\* C28: a run_all() call that has been entered returns, whether or not
\* the checks end, and a worker that is inside run_test_with_timeout()
\* leaves it.
C28_RunAllReturns ==
    /\ (ra_pc[Driver] # "idle") ~> (ra_pc[Driver] = "done")
    /\ \A w \in Workers : InCall(w) ~> ~InCall(w)

\* run_all() has returned two results, one of a check that never ended
C28_ReturnedWithCheckRunning ==
    /\ ra_pc[Driver] = "done"
    /\ Len(ra_results[Driver]) = 2
    /\ \E t \in Tests : aux_pc[t] = "running" /\ t \in detached

\* -----------------------------------------------------------------
\* ParallelTestRunner: run_all() after stop()
\* -----------------------------------------------------------------
RECURSIVE SumOver(_, _)
SumOver(f, n) == IF n = 0 THEN 0 ELSE f[n] + SumOver(f, n - 1)

\* C29: run_all() entered after stop() has returned, with tasks pending,
\* ends with the exception of the stopped pool; it returns no results, no
\* check is started, and when it has thrown one task has left the pending
\* queue and has no TestResult.
C29_FailsAfterStop ==
    /\ (ra_pc[Driver] \in {"admit_conc", "admit_res", "submit"})
          ~> (ra_pc[Driver] = "threw")
    /\ [](ra_pc[Driver] = "done" => ra_entry[Driver] = 0)
    /\ [](\A t \in Tests : started[t] = 0 /\ future[t] = <<>>)
    /\ [](ra_pc[Driver] = "threw" =>
            /\ SumOver(popped, MaxTests) = 1
            /\ ra_results[Driver] = <<>>)

\* -----------------------------------------------------------------
\* ThreadPool: order of dequeueing
\* -----------------------------------------------------------------
\* C30: the tasks of one pool leave the queue in the order in which they
\* were enqueued, whichever worker takes them: the task a worker dequeues
\* was enqueued before every task that is in the queue at that moment, and
\* the queue holds the tasks in the order of their enqueueing (enqueue()
\* numbers the tasks in the order of its calls).
C30_FifoDequeue ==
    [][/\ \A i, j \in 1..Len(tasks_') : i < j => tasks_'[i] < tasks_'[j]
       /\ \A w \in Workers :
            (worker_pc[w] = "wait" /\ worker_pc'[w] = "run") =>
                /\ \A i \in 1..Len(tasks_) : worker_task'[w] <= tasks_[i]
                /\ \A i \in 1..Len(tasks_') : worker_task'[w] < tasks_'[i]]_vars

\* C30 witness: the first task is still running on one worker while another
\* worker has finished the second task and has started the third
C30_ThirdStartedFirstRunning ==
    /\ \E w1, w2 \in Workers : worker_task[w1] = 1 /\ worker_task[w2] = 3
    /\ tasks_ = <<>>

\* -----------------------------------------------------------------
\* ParallelTestRunner: classification of failures
\* -----------------------------------------------------------------
\* the TestResult fields that the outcome o of a check calls for ("none":
\* the check returned)
Classified(r, o) ==
    CASE o = "none" -> r.success /\ r.counterexample = ""
      [] o = "pbt_cex" -> /\ ~r.success
                          /\ r.error_message = ErrorMessageOf(o)
                          /\ r.counterexample = "cex"
      [] OTHER -> /\ ~r.success
                  /\ r.error_message = ErrorMessageOf(o)
                  /\ r.counterexample = ""

\* C31: the TestResult of a check that ended within its timeout is
\* classified by what the check did: a property failure with a
\* counterexample gives success = false, the message and the counterexample;
\* any other exception gives success = false and the message with an empty
\* counterexample; a check that returned gives success = true and an empty
\* counterexample.
C31_FailureClassified ==
    \A t \in Tests :
        (future[t] # <<>> /\ IsValue(future[t][1]) /\ t \notin detached)
            => Classified(future[t][1], thrown[t])

\* -----------------------------------------------------------------
\* TestDistributor: round robin and the index range
\* -----------------------------------------------------------------
\* the strategy hands out runners by the shared counter
ByCounter == strategy_.type # "LOAD_BALANCED" /\ ~UsesSelector

\* the tasks that add_property() has placed on runner i so far
PlacedOn(i) == {t \in DistTasks : td_assigned[t] = i}

\* C32: under ROUND_ROBIN, and under AFFINITY_BASED without a selector,
\* the k-th add_property call (k from 0, in the order of the counter) uses
\* runner k mod N, also when the calls overlap: task t holds counter value
\* t - 1; once N*m calls are over every runner has received m tasks.
C32_RoundRobinByCounter ==
    (td_state = "constructed" /\ ByCounter) =>
        /\ \A t \in DistTasks :
             td_assigned[t] # -1 => td_assigned[t] = (t - 1) % td_size
        /\ \A a \in Adders :
             td_adders[a] # NotAdding =>
                 td_adders[a][1] = (td_adders[a][2] - 1) % td_size
        /\ round_robin_counter_ = td_next - 1
        /\ (/\ \A a \in Adders : td_adders[a] = NotAdding
            /\ round_robin_counter_ % td_size = 0) =>
                 \A i \in Runners :
                     Cardinality(PlacedOn(i)) * td_size = round_robin_counter_

\* C32 witness: four overlapping calls over two runners, two tasks each
C32_TwoEachAfterOverlap ==
    /\ td_state = "constructed"
    /\ strategy_.type = "AFFINITY_BASED"
    /\ ByCounter
    /\ td_size = 2
    /\ td_overlap
    /\ td_runs = 0
    /\ \A i \in Runners : Len(td_pending[i]) = 2

\* C33: for every strategy, also AFFINITY_BASED with a selector supplied by
\* the caller, the index that add_property() uses on runners_ is one of
\* 0 .. N-1.
C33_IndexInRange ==
    /\ \A a \in Adders :
         td_adders[a] # NotAdding => td_adders[a][1] \in Runners
    /\ \A t \in DistTasks : td_assigned[t] # -1 => td_assigned[t] \in Runners

\* -----------------------------------------------------------------
\* ResourceMonitor: the history as a ring
\* -----------------------------------------------------------------
\* C34: after s samples with history_size = H the history holds exactly
\* the last min(s, H) samples, oldest first (sample k carries timestamp k),
\* and each sample extends the history at the end and evicts the oldest
\* entry on overflow.
C34_HistoryRing ==
    /\ [](/\ Len(history_) = (IF clock < history_size THEN clock
                                                     ELSE history_size)
          /\ \A i \in 1..Len(history_) :
               history_[i].timestamp = clock - Len(history_) + i)
    /\ [][clock' # clock =>
            history_' = LastOf(Append(history_, current_metrics_'),
                               history_size)]_vars

\* -----------------------------------------------------------------
\* ResourceMonitor: start() and stop() from several threads
\* -----------------------------------------------------------------
\* the step is the return of a stop() call that found the monitor running
StopReturns ==
    /\ last_call' = "stop"
    /\ \/ ncalls' # ncalls
       \/ \E c \in Controllers : ctl_pc[c] = "joining" /\ ctl_pc'[c] = "idle"

\* C35: whatever the interleaving of start() and stop() calls of several
\* threads, at most one sampler loop runs, no start() assigns to a
\* monitor_thread_ that is still joinable (which ends the process), and when
\* a stop() that found the monitor running returns no sampler loop runs.
C35_OneSamplerUnderRaces ==
    /\ [](Cardinality(LiveSamplers) <= 1)
    /\ [](proc # "terminated")
    /\ [][StopReturns => LiveSamplers' = {}]_vars

\* -----------------------------------------------------------------
\* ResourceMonitor: every rising edge is reported
\* -----------------------------------------------------------------
\* C36: with a callback installed, a sample that is above the threshold in
\* force while the sample before it was at or below that threshold invokes
\* the callback exactly once for that resource, whatever
\* set_alert_callback and set_cpu_threshold / set_memory_threshold calls
\* came between the two samples.
C36_EveryEdgeAlerts ==
    [][(clock' # clock /\ clock > 0 /\ alert_callback_) =>
         /\ (/\ current_metrics_'.cpu_usage_percent > alert_thresholds.cpu
             /\ current_metrics_.cpu_usage_percent <= alert_thresholds.cpu)
                => Cardinality(NewAlerts("cpu")) = 1
         /\ (/\ current_metrics_'.memory_usage_percent
                    > alert_thresholds.memory
             /\ current_metrics_.memory_usage_percent
                    <= alert_thresholds.memory)
                => Cardinality(NewAlerts("memory")) = 1]_vars

\* -----------------------------------------------------------------
\* AdaptiveResourceManager: manual overrides
\* -----------------------------------------------------------------
\* C37: whatever size the pool reports, the size a manual override passes
\* to set_size lies in [min_threads, max_threads]; scale_up passes no size
\* below the current one and scale_down none above it; a call with an
\* unknown pool name calls no set_size.
C37_OverridesKeepBounds ==
    arm_last.called =>
        /\ arm_last.set_size => InBounds(arm_last.optimal)
        /\ (arm_last.set_size /\ arm_last.op = "scale_up") =>
               arm_last.optimal >= arm_last.current
        /\ (arm_last.set_size /\ arm_last.op = "scale_down") =>
               arm_last.optimal <= arm_last.current
        /\ arm_last.name # PoolName =>
               (~arm_last.set_size /\ arm_last.optimal = arm_last.current)

\* -----------------------------------------------------------------
\* CounterexampleDatabase: the total size limit in store()
\* -----------------------------------------------------------------
\* the step is a store() that added its entry
StoreStep == db_ops' # db_ops /\ db_last'.op = "store" /\ db_last'.ok

\* s without the elements at the indices in R, from index i on
RECURSIVE KeepOnly(_, _, _)
KeepOnly(s, R, i) ==
    IF i > Len(s) THEN <<>>
    ELSE (IF i \in R THEN <<>> ELSE <<s[i]>>) \o KeepOnly(s, R, i + 1)

\* what enforcing the total size made of the entries `before`: the entries
\* at R are gone and they are the oldest, nothing is gone if the total was
\* within the limit, the rest is within the limit, and it would not be with
\* the last entry removed still there; the entry just stored (the last one)
\* is gone only if nothing as old is left
EvictedOldestFirst(before, after) ==
    \E R \in SUBSET (1..Len(before)) :
        /\ after = KeepOnly(before, R, 1)
        /\ \A i \in R, j \in (1..Len(before)) \ R :
             before[i].timestamp <= before[j].timestamp
        /\ ~OverLimit(before) => R = {}
        /\ ~OverLimit(after)
        /\ R # {} =>
             \E i \in R :
                 /\ \A k \in R : before[k].timestamp <= before[i].timestamp
                 /\ OverLimit(Append(after, before[i]))
        /\ Len(before) \in R =>
             \A j \in (1..Len(before)) \ R :
                 before[j].timestamp > before[Len(before)].timestamp

\* C38: with auto_cleanup on, the total-size enforcement of store() removes
\* entries oldest first by timestamp, whatever their test names, stops as
\* soon as the total compressed size is within the limit, removes nothing
\* if it already was, and removes the entry just stored only after every
\* older one.
C38_TotalSizeEvictsOldest ==
    [][(StoreStep /\ db_config.auto_cleanup) =>
         EvictedOldestFirst(db_ghost'.limited, db_entries')]_vars

\* C38 witness: a store() for "q" has pushed the total over the limit, an
\* older entry of "p" is gone and the entry just stored is kept
C38_OldestOfOtherTestEvicted ==
    /\ db_state = "open" /\ db_config.auto_cleanup
    /\ db_last.op = "store" /\ db_last.ok /\ db_last.name = "q"
    /\ Len(db_ghost.limited) = Len(db_entries) + 1
    /\ db_ghost.limited[1].test_name = "p"
    /\ db_ghost.limited[1].timestamp < db_now
    /\ db_entries # <<>>
    /\ db_entries[Len(db_entries)].id = Len(db_ghost.names)

\* -----------------------------------------------------------------
\* CounterexampleDatabase: the retention period
\* -----------------------------------------------------------------
\* C39: with auto_cleanup on, after a store() that returned no entry is
\* left whose timestamp is before the time of the store minus
\* retention_period, imported entries included; with auto_cleanup off the
\* store() appends its entry and changes nothing else.
C39_RetentionOnStore ==
    [][StoreStep =>
         IF db_config.auto_cleanup
           THEN \A i \in 1..Len(db_entries') :
                    ~(db_entries'[i].timestamp
                          < db_now - db_config.retention_period)
           ELSE /\ Len(db_entries') = Len(db_entries) + 1
                /\ SubSeq(db_entries', 1, Len(db_entries)) = db_entries
                /\ db_entries'[Len(db_entries')].test_name = db_last'.name
                /\ db_entries'[Len(db_entries')].timestamp = db_now]_vars

\* C39 witness: two entries were imported, the clock went on, and a
\* store() with a retention period of 0 has purged both
C39_ImportedPurged ==
    /\ db_state = "open" /\ db_config.auto_cleanup
    /\ db_config.retention_period = 0
    /\ db_last.op = "store" /\ db_last.ok
    /\ db_ops = 2
    /\ ~db_ghost.only_stores
    /\ db_ghost.purged = 2
    /\ Len(db_entries) = 1

\* -----------------------------------------------------------------
\* CounterexampleDatabase and ResourceMonitor: one mutex guards all state
\* -----------------------------------------------------------------
\* C40: a thread that is inside a member function reading or writing the
\* entry list, the strategy registry, the default compression, the
\* history, the current metrics, the alert callback or the alert
\* thresholds holds the mutex of that object, so no two threads are ever
\* inside functions of which one writes a member the other reads or
\* writes, and the process never dies of such a race; the store() calls
\* that returned without evicting anything have each left one entry.
C40_AllAccessUnderMutex ==
    /\ \A t \in Threads :
          \A member \in Accesses(in_call[t].op) :
              Holder(MutexOf(member)) = t
    /\ \A t \in Threads : ~Racing(t)
    /\ db_state # "crashed"
    /\ proc # "crashed"
    /\ (/\ db_state = "open"
        /\ \/ ~db_config.auto_cleanup
           \/ Len(db_ghost.names) <= db_config.max_entries_per_test)
          => Len(db_entries) = Len(db_ghost.names)

====
